---- MODULE Spec2Model ----
(***************************************************************************)
(* LLMPlug: the provider adapters (request building, response mapping and  *)
(* the streaming reconstructors of chatStream) as a state machine.         *)
(*                                                                         *)
(* Conventions                                                             *)
(*   - a JavaScript value that may be undefined is a sequence of length 0  *)
(*     (undefined) or 1 (the value): None, Some(v);                        *)
(*   - a JavaScript object used as a map is a sequence of [key, val]       *)
(*     entries in insertion order;                                         *)
(*   - strings are TLA+ strings, concatenated with \o .                    *)
(***************************************************************************)
EXTENDS Naturals, Integers, Sequences, FiniteSets, TLC

VARIABLES
    setup,          \* what getProvider and the constructor are given
    provider,       \* the provider instance the call is made on
    config,         \* the provider's configuration (defaultModel)
    method,         \* "chat", "chatStream", "generate" or "generateStream"
    genInput,       \* the input of generate: a prompt or a message list
    messages,       \* the message list chat / chatStream works on
    options,        \* the caller's options
    pc,             \* position of the call
    request,        \* None, or Some(vendor request handed to the transport)
    transportCalls, \* number of transport invocations made
    received,       \* upstream events delivered to the for-await loop so far
    toolState,      \* the call's accumulator (currentToolCallsState, streamingToolCallArgs, ...)
    heap,           \* the `function` objects shared between accumulator and chunks
    yielded,        \* chunks yielded to the consumer so far
    error,          \* None, or Some(error delivered to the caller)
    result,         \* None, or Some(GenerationResult returned by chat)
    now,            \* value of Date.now() during the call
    fullText,       \* handleStream: fullText
    hsToolCalls,    \* handleStream: toolCalls
    finalUsage,     \* handleStream: finalUsage
    finalFinishReason, \* handleStream: finalFinishReason
    second          \* the locals of a second chatStream call running on the same instance

vars == <<setup, provider, config, method, genInput, messages, options, pc, request, transportCalls,
          received, toolState, heap, yielded, error, result, now,
          fullText, hsToolCalls, finalUsage, finalFinishReason, second>>

streamVars == <<received, toolState, heap, yielded>>
consumerVars == <<fullText, hsToolCalls, finalUsage, finalFinishReason>>
callVars == <<setup, provider, config, method, genInput, options, now, second>>

----------------------------------------------------------------------------
(* Optional values and insertion-ordered maps *)

None == <<>>
Some(v) == <<v>>
IsSome(o) == Len(o) > 0
Val(o) == o[1]

\* JavaScript truthiness of an optional string: undefined and "" are falsy
TruthyStr(o) == IsSome(o) /\ Val(o) /= ""

\* o || d for an optional string
OrStr(o, d) == IF TruthyStr(o) THEN Val(o) ELSE d

MapHas(m, k) == \E i \in 1..Len(m) : m[i].key = k
MapIdx(m, k) == CHOOSE i \in 1..Len(m) : m[i].key = k
MapGet(m, k) == m[MapIdx(m, k)].val
MapPut(m, k, v) ==
    IF MapHas(m, k)
    THEN [m EXCEPT ![MapIdx(m, k)] = [key |-> k, val |-> v]]
    ELSE Append(m, [key |-> k, val |-> v])
MapKeys(m) == [i \in 1..Len(m) |-> m[i].key]
MapValues(m) == [i \in 1..Len(m) |-> m[i].val]

RECURSIVE ConcatAll(_)
ConcatAll(ss) == IF ss = <<>> THEN "" ELSE Head(ss) \o ConcatAll(Tail(ss))

\* lines.join(sep)
RECURSIVE JoinLines(_, _)
JoinLines(lines, sep) ==
    IF lines = <<>> THEN ""
    ELSE IF Len(lines) = 1 THEN lines[1]
    ELSE lines[1] \o sep \o JoinLines(Tail(lines), sep)

RECURSIVE FlattenSeq(_)
FlattenSeq(ss) == IF ss = <<>> THEN <<>> ELSE Head(ss) \o FlattenSeq(Tail(ss))

SelectIdx(s, Test(_)) == SelectSeq([i \in 1..Len(s) |-> i], LAMBDA i : Test(s[i]))

----------------------------------------------------------------------------
(* Bounds and input alphabets *)

MaxEvents == 3

Providers == {"OpenAI", "Anthropic", "Google", "Cohere", "Mistral",
              "OpenRouter", "Ollama", "Generic"}

\* providers whose chatStream runs the OpenAI wire format
OpenAIWire == {"OpenAI", "OpenRouter", "Ollama", "Generic", "Mistral"}

TextFrags == {"Hel", "lo"}
ArgFrags == {"{\"a\":", "1}"}
ToolNames == {"get_current_weather"}
Timestamps == {1000}

FinishReasons == {"stop", "tool_calls", "STOP"}

\* String.prototype.toLowerCase on the finish-reason vocabulary
ToLowerCase(s) ==
    CASE s = "STOP" -> "stop"
      [] s = "TOOL_CALLS" -> "tool_calls"
      [] s = "COMPLETE" -> "complete"
      [] s = "MAX_TOKENS" -> "max_tokens"
      [] OTHER -> s

\* String.prototype.toUpperCase on the finish-reason vocabulary
ToUpperCase(s) ==
    CASE s = "stop" -> "STOP"
      [] s = "tool_calls" -> "TOOL_CALLS"
      [] s = "complete" -> "COMPLETE"
      [] s = "max_tokens" -> "MAX_TOKENS"
      [] OTHER -> s

----------------------------------------------------------------------------
(* Stream chunks (GenerationStreamChunk) *)

EmptyChunk(raw) ==
    [rawChunk |-> raw, text |-> None, toolCalls |-> None,
     finishReason |-> None, usage |-> None]

\* a tool call held by value: { id, type, function: { name, arguments } }
ToolCallByValue(id, type, name, arguments) ==
    [id |-> id, type |-> type, function |-> [name |-> name, arguments |-> arguments]]

\* a shallow copy { ...state[index] }: id and type copied, `function` shared
ToolCallShallow(entry) == [id |-> entry.id, type |-> entry.type, ref |-> entry.ref]

\* the function object a tool call of a chunk shows when read with heap h
FunctionOf(tc, h) == IF "ref" \in DOMAIN tc THEN h[tc.ref] ELSE tc.function

----------------------------------------------------------------------------
(* OpenAI wire format: chat.completions chunks *)

WireUsage(p, c, t) == [prompt_tokens |-> p, completion_tokens |-> c, total_tokens |-> t]
TcDelta(index, id, type, name, arguments) ==
    [index |-> index, id |-> id, type |-> type, name |-> name, arguments |-> arguments]
Choice(content, tool_calls, finish_reason) ==
    [content |-> content, tool_calls |-> tool_calls, finish_reason |-> finish_reason]
WireChunk(choices, usage) == [choices |-> choices, usage |-> usage]

OpenAIWireEvents ==
    \* text deltas
    {WireChunk(<<Choice(Some(f), None, None)>>, None) : f \in TextFrags}
    \* first fragment of a tool call: id, name and the first arguments fragment
    \cup {WireChunk(<<Choice(None,
              Some(<<TcDelta(0, Some("call_0"), Some("function"), Some(n), Some("{\"a\":"))>>),
              None)>>, None) : n \in ToolNames}
    \* later fragments: the index only
    \cup {WireChunk(<<Choice(None,
              Some(<<TcDelta(0, None, None, None, Some(a))>>), None)>>, None) : a \in ArgFrags}
    \* a later fragment that repeats the id
    \cup {WireChunk(<<Choice(None,
              Some(<<TcDelta(0, Some("call_0"), None, None, Some("1}"))>>), None)>>, None)}
    \* terminal events
    \cup {WireChunk(<<Choice(None, None, Some(r))>>, None) : r \in FinishReasons}
    \* usage reported without choices
    \cup {WireChunk(<<>>, Some(WireUsage(Some(5), Some(1), Some(6))))}
    \* usage reported on a text delta, with no finish reason
    \cup {WireChunk(<<Choice(Some("lo"), None, None)>>,
                    Some(WireUsage(Some(5), Some(1), Some(6))))}
    \* usage reported on the terminal event
    \cup {WireChunk(<<Choice(None, None, Some("stop"))>>,
                    Some(WireUsage(Some(5), Some(1), Some(6))))}

CanonicalUsage(u) ==
    [promptTokens |-> u.prompt_tokens, completionTokens |-> u.completion_tokens,
     totalTokens |-> u.total_tokens]

\* chunk.choices[0]
FirstChoice(ev) == IF Len(ev.choices) > 0 THEN Some(ev.choices[1]) ELSE None

\* OpenAIProvider.chatStream, body of the for-await loop
OpenAIStep(ev, st, h) ==
    LET choice == FirstChoice(ev)
        content == IF IsSome(choice) THEN Val(choice).content ELSE None
        tcs == IF IsSome(choice) THEN Val(choice).tool_calls ELSE None
        fin == IF IsSome(choice) THEN Val(choice).finish_reason ELSE None
        c0 == EmptyChunk(ev)
        c1 == IF TruthyStr(content) THEN [c0 EXCEPT !.text = content] ELSE c0
        c2 == IF IsSome(tcs)
              THEN [c1 EXCEPT !.toolCalls =
                      Some([i \in 1..Len(Val(tcs)) |->
                          ToolCallByValue(Val(tcs)[i].id, Val(tcs)[i].type,
                              Val(tcs)[i].name, OrStr(Val(tcs)[i].arguments, ""))])]
              ELSE c1
        c3 == IF TruthyStr(fin) THEN [c2 EXCEPT !.finishReason = fin] ELSE c2
        c4 == IF IsSome(ev.usage)
              THEN [c3 EXCEPT !.usage = Some(CanonicalUsage(Val(ev.usage)))]
              ELSE c3
    IN [state |-> st, heap |-> h, out |-> Some(c4)]

\* one tcDelta of the index-keyed loop of OpenRouter, Ollama and the generic
\* provider; acc = [state, heap, out] with out the processedToolCalls so far
IndexKeyedDelta(acc, tc) ==
    LET st == acc.state
        h == acc.heap
        has == MapHas(st, tc.index)
        started ==
            IF TruthyStr(tc.id)
            THEN \* start of a new tool call: a fresh entry with a fresh function object
                 [state |-> MapPut(st, tc.index,
                                [id |-> tc.id, type |-> Some("function"), ref |-> Len(h) + 1]),
                  heap |-> Append(h, [name |-> Some(OrStr(tc.name, "")),
                                      arguments |-> OrStr(tc.arguments, "")])]
            ELSE IF has
            THEN \* continuation: mutate the function object in place
                 LET r == MapGet(st, tc.index).ref
                     h1 == IF TruthyStr(tc.name) THEN [h EXCEPT ![r].name = tc.name] ELSE h
                     h2 == IF TruthyStr(tc.arguments)
                           THEN [h1 EXCEPT ![r].arguments = @ \o Val(tc.arguments)]
                           ELSE h1
                 IN [state |-> st, heap |-> h2]
            ELSE [state |-> st, heap |-> h]
    IN [state |-> started.state, heap |-> started.heap,
        out |-> IF MapHas(started.state, tc.index)
                THEN Append(acc.out, ToolCallShallow(MapGet(started.state, tc.index)))
                ELSE acc.out]

RECURSIVE IndexKeyedLoop(_, _)
IndexKeyedLoop(acc, tcs) ==
    IF tcs = <<>> THEN acc
    ELSE IndexKeyedLoop(IndexKeyedDelta(acc, Head(tcs)), Tail(tcs))

\* the usage a provider of the index-keyed family attaches to a chunk
IndexKeyedUsage(p, ev, finished) ==
    CASE p = "OpenRouter" ->
            IF IsSome(ev.usage) THEN Some(CanonicalUsage(Val(ev.usage))) ELSE None
      [] p = "Generic" -> ev.usage
      [] OTHER -> \* Ollama: only inside `if (finishReason)`
            IF finished THEN ev.usage ELSE None

\* OpenRouterProvider / OllamaProvider / GenericOpenAICompatibleProvider
\* chatStream, body of the for-await loop
IndexKeyedStep(p, ev, st, h) ==
    LET choice == FirstChoice(ev)
    IN IF ~IsSome(choice)
       THEN [state |-> st, heap |-> h, out |-> None]      \* if (!choice) continue
       ELSE
       LET content == Val(choice).content
           tcs == Val(choice).tool_calls
           fin == IF IsSome(Val(choice).finish_reason)
                  THEN Some(ToLowerCase(Val(Val(choice).finish_reason)))
                  ELSE None
           c0 == EmptyChunk(ev)
           c1 == IF TruthyStr(content) THEN [c0 EXCEPT !.text = content] ELSE c0
           loop == IF IsSome(tcs)
                   THEN IndexKeyedLoop([state |-> st, heap |-> h, out |-> <<>>], Val(tcs))
                   ELSE [state |-> st, heap |-> h, out |-> <<>>]
           c2 == IF Len(loop.out) > 0 THEN [c1 EXCEPT !.toolCalls = Some(loop.out)] ELSE c1
           c3 == IF TruthyStr(fin) THEN [c2 EXCEPT !.finishReason = fin] ELSE c2
           u == IndexKeyedUsage(p, ev, TruthyStr(fin))
           c4 == IF IsSome(u) THEN [c3 EXCEPT !.usage = u] ELSE c3
       IN [state |-> IF TruthyStr(fin) THEN <<>> ELSE loop.state,
           heap |-> loop.heap, out |-> Some(c4)]

\* one tcDelta of MistralProvider.chatStream
MistralDelta(acc, tc) ==
    LET st == acc.state
        h == acc.heap
        upd ==
            IF ~MapHas(st, tc.index)
            THEN [state |-> MapPut(st, tc.index,
                                [id |-> tc.id, type |-> Some("function"), ref |-> Len(h) + 1]),
                  heap |-> Append(h, [name |-> tc.name,
                                      arguments |-> OrStr(tc.arguments, "")])]
            ELSE LET e == MapGet(st, tc.index)
                     r == e.ref
                     h1 == IF TruthyStr(tc.arguments)
                           THEN [h EXCEPT ![r].arguments = @ \o Val(tc.arguments)]
                           ELSE h
                     h2 == IF TruthyStr(tc.name) THEN [h1 EXCEPT ![r].name = tc.name] ELSE h1
                     e1 == IF TruthyStr(tc.id) THEN [e EXCEPT !.id = tc.id] ELSE e
                 IN [state |-> MapPut(st, tc.index, e1), heap |-> h2]
    IN [state |-> upd.state, heap |-> upd.heap,
        out |-> Append(acc.out, ToolCallShallow(MapGet(upd.state, tc.index)))]

RECURSIVE MistralLoop(_, _)
MistralLoop(acc, tcs) ==
    IF tcs = <<>> THEN acc
    ELSE MistralLoop(MistralDelta(acc, Head(tcs)), Tail(tcs))

\* MistralProvider.chatStream, body of the for-await loop
MistralStep(ev, st, h) ==
    LET choice == FirstChoice(ev)
        content == IF IsSome(choice) THEN Val(choice).content ELSE None
        tcs == IF IsSome(choice) THEN Val(choice).tool_calls ELSE None
        fin == IF IsSome(choice) THEN Val(choice).finish_reason ELSE None
        c0 == EmptyChunk(ev)
        c1 == IF TruthyStr(content) THEN [c0 EXCEPT !.text = content] ELSE c0
        loop == IF IsSome(tcs)
                THEN MistralLoop([state |-> st, heap |-> h, out |-> <<>>], Val(tcs))
                ELSE [state |-> st, heap |-> h, out |-> <<>>]
        c2 == IF Len(loop.out) > 0 THEN [c1 EXCEPT !.toolCalls = Some(loop.out)] ELSE c1
        c3 == IF TruthyStr(fin)
              THEN [c2 EXCEPT !.finishReason = Some(ToLowerCase(Val(fin)))] ELSE c2
        c4 == IF IsSome(ev.usage)
              THEN [c3 EXCEPT !.usage = Some(CanonicalUsage(Val(ev.usage)))]
              ELSE c3
    IN [state |-> IF TruthyStr(fin) THEN <<>> ELSE loop.state,
        heap |-> loop.heap, out |-> Some(c4)]

----------------------------------------------------------------------------
(* Parsed JSON objects: a sequence of <<key, number>> members *)

EmptyObject == <<>>
ObjectA1 == << <<"a", 1>> >>

RECURSIVE JsonMembers(_)
JsonMembers(obj) ==
    IF obj = <<>> THEN ""
    ELSE "\"" \o Head(obj)[1] \o "\":" \o ToString(Head(obj)[2])
         \o (IF Len(obj) > 1 THEN "," ELSE "") \o JsonMembers(Tail(obj))

\* JSON.stringify of a parsed object
JsonStringify(obj) == "{" \o JsonMembers(obj) \o "}"

\* a serialization that loses the members of the object
JsonStringifyNothing(o) == JsonStringify(EmptyObject)

\* JSON.stringify(o || {}) for an optional object
JsonStringifyOrEmpty(o) == JsonStringify(IF IsSome(o) THEN Val(o) ELSE EmptyObject)

----------------------------------------------------------------------------
(* Anthropic: messages.stream events *)

AnthropicEvent(type, delta, content_block, usage, message_usage) ==
    [type |-> type, delta |-> delta, content_block |-> content_block,
     usage |-> usage, message_usage |-> message_usage]
AnthropicDelta(type, text, partial_json, stop_reason) ==
    [type |-> type, text |-> text, partial_json |-> partial_json, stop_reason |-> stop_reason]
ContentBlock(type, id, name, input) == [type |-> type, id |-> id, name |-> name, input |-> input]

AnthropicEvents ==
    {AnthropicEvent("message_start", None, None, None, Some([input_tokens |-> 5]))}
    \cup {AnthropicEvent("content_block_delta",
              Some(AnthropicDelta(Some("text_delta"), f, "", None)), None, None, None)
          : f \in TextFrags}
    \* a tool_use block whose input arrives whole
    \cup {AnthropicEvent("content_block_start", None,
              Some(ContentBlock("tool_use", "toolu_0", n, Some(ObjectA1))), None, None)
          : n \in ToolNames}
    \* input_json_delta as the Anthropic API sends it: a content_block_delta
    \cup {AnthropicEvent("content_block_delta",
              Some(AnthropicDelta(Some("input_json_delta"), "", a, None)), None, None, None)
          : a \in ArgFrags}
    \* input_json_delta in the shape the accumulator looks for
    \cup {AnthropicEvent("content_block_start",
              Some(AnthropicDelta(Some("input_json_delta"), "", a, None)),
              Some(ContentBlock("tool_use", "toolu_0", "get_current_weather", None)), None, None)
          : a \in ArgFrags}
    \cup {AnthropicEvent("message_delta",
              Some(AnthropicDelta(None, "", "", Some("end_turn"))), None,
              Some([output_tokens |-> 1]), None)}
    \cup {AnthropicEvent("message_stop", None, None, None, None)}

\* AnthropicProvider.chatStream, body of the for-await loop;
\* st is streamingToolCallArgs: id -> [id, name, arguments]
AnthropicStep(ev, st, h) ==
    LET c0 == EmptyChunk(ev)
        dtype == IF IsSome(ev.delta) THEN Val(ev.delta).type ELSE None
    IN
    IF ev.type = "content_block_delta" /\ dtype = Some("text_delta")
    THEN [state |-> st, heap |-> h, out |-> Some([c0 EXCEPT !.text = Some(Val(ev.delta).text)])]
    ELSE IF ev.type = "content_block_start" /\ dtype = Some("input_json_delta")
    THEN IF Val(ev.content_block).type = "tool_use"
         THEN LET id == Val(ev.content_block).id
                  st1 == IF MapHas(st, id) THEN st
                         ELSE MapPut(st, id, [id |-> id, name |-> Val(ev.content_block).name,
                                              arguments |-> ""])
                  e == MapGet(st1, id)
              IN [state |-> MapPut(st1, id,
                                [e EXCEPT !.arguments = @ \o Val(ev.delta).partial_json]),
                  heap |-> h, out |-> Some(c0)]
         ELSE [state |-> st, heap |-> h, out |-> Some(c0)]
    ELSE IF ev.type = "content_block_start" /\ Val(ev.content_block).type = "tool_use"
    THEN [state |-> st, heap |-> h,
          out |-> Some([c0 EXCEPT !.toolCalls =
                    Some(<<ToolCallByValue(Some(Val(ev.content_block).id), Some("function"),
                              Some(Val(ev.content_block).name),
                              JsonStringifyOrEmpty(Val(ev.content_block).input))>>)])]
    ELSE IF ev.type = "message_delta" /\ TruthyStr(Val(ev.delta).stop_reason)
    THEN LET c1 == [c0 EXCEPT !.finishReason = Val(ev.delta).stop_reason]
         IN [state |-> st, heap |-> h,
             out |-> Some(IF IsSome(ev.usage)
                          THEN [c1 EXCEPT !.usage =
                                  Some([output_tokens |-> Some(Val(ev.usage).output_tokens)])]
                          ELSE c1)]
    ELSE IF ev.type = "message_start"
    THEN [state |-> st, heap |-> h,
          out |-> Some(IF IsSome(ev.message_usage)
                       THEN [c0 EXCEPT !.usage =
                               Some([promptTokens |-> Some(Val(ev.message_usage).input_tokens)])]
                       ELSE c0)]
    ELSE IF ev.type = "message_stop"
    THEN LET vals == MapValues(st)
             finalizedToolCalls ==
                 [i \in 1..Len(vals) |->
                     ToolCallByValue(Some(vals[i].id), Some("function"),
                                     Some(vals[i].name), vals[i].arguments)]
         IN [state |-> st, heap |-> h,
             out |-> Some(IF Len(finalizedToolCalls) > 0
                          THEN [c0 EXCEPT !.toolCalls = Some(finalizedToolCalls)]
                          ELSE c0)]
    ELSE [state |-> st, heap |-> h, out |-> Some(c0)]

----------------------------------------------------------------------------
(* Google: generateContentStream chunks *)

GooglePart(text, functionCall) == [text |-> text, functionCall |-> functionCall]
GoogleCandidate(parts, finishReason, tokenCount) ==
    [parts |-> parts, finishReason |-> finishReason, tokenCount |-> tokenCount]
GoogleChunk(candidates, usageMetadata) ==
    [candidates |-> candidates, usageMetadata |-> usageMetadata]
UsageMetadata(p, c, t) ==
    [promptTokenCount |-> p, candidatesTokenCount |-> c, totalTokenCount |-> t]

GoogleEvents ==
    {GoogleChunk(<<GoogleCandidate(Some(<<GooglePart(Some(f), None)>>), None, None)>>, None)
     : f \in TextFrags}
    \* one event carrying two text parts
    \cup {GoogleChunk(<<GoogleCandidate(
              Some(<<GooglePart(Some("Hel"), None), GooglePart(Some("lo"), None)>>),
              None, None)>>, None)}
    \cup {GoogleChunk(<<GoogleCandidate(
              Some(<<GooglePart(None, Some([name |-> n, args |-> Some(ObjectA1)]))>>),
              None, None)>>, None) : n \in ToolNames}
    \cup {GoogleChunk(<<GoogleCandidate(None, Some("STOP"), None)>>,
              Some(UsageMetadata(Some(5), Some(1), Some(6))))}
    \cup {GoogleChunk(<<>>, Some(UsageMetadata(Some(5), None, None)))}

\* Date.now() rendered into an id
GeminiStreamId(t, index) == "gemini-fc-stream-" \o ToString(t) \o "-" \o ToString(index)

\* a || b for optional numbers (0 is falsy)
OrNum(a, b) == IF IsSome(a) /\ Val(a) /= 0 THEN a ELSE b

\* GoogleProvider.chatStream, body of the for-await loop
GoogleStep(ev, st, h, t) ==
    LET c0 == EmptyChunk(ev)
        candidate == IF Len(ev.candidates) > 0 THEN Some(ev.candidates[1]) ELSE None
        parts == IF IsSome(candidate) THEN Val(candidate).parts ELSE None
        \* parts.find(part => part.text): the first part with a truthy text
        textIdx == IF IsSome(parts)
                   THEN SelectIdx(Val(parts), LAMBDA q : TruthyStr(q.text)) ELSE <<>>
        c1 == IF Len(textIdx) > 0
              THEN [c0 EXCEPT !.text = Val(parts)[textIdx[1]].text] ELSE c0
        fcParts == IF IsSome(parts)
                   THEN SelectSeq(Val(parts), LAMBDA q : IsSome(q.functionCall)) ELSE <<>>
        c2 == IF Len(fcParts) > 0
              THEN [c1 EXCEPT !.toolCalls =
                      Some([i \in 1..Len(fcParts) |->
                          ToolCallByValue(Some(GeminiStreamId(t, i - 1)), Some("function"),
                              Some(Val(fcParts[i].functionCall).name),
                              JsonStringifyOrEmpty(Val(fcParts[i].functionCall).args))])]
              ELSE c1
        c3 == IF IsSome(ev.usageMetadata)
              THEN [c2 EXCEPT !.usage =
                      Some([promptTokens |-> Val(ev.usageMetadata).promptTokenCount,
                            completionTokens |->
                                OrNum(Val(ev.usageMetadata).candidatesTokenCount,
                                      IF IsSome(candidate) THEN Val(candidate).tokenCount
                                      ELSE None),
                            totalTokens |-> Val(ev.usageMetadata).totalTokenCount])]
              ELSE c2
        c4 == IF IsSome(candidate) /\ TruthyStr(Val(candidate).finishReason)
              THEN [c3 EXCEPT !.finishReason = Val(candidate).finishReason] ELSE c3
    IN [state |-> st, heap |-> h, out |-> Some(c4)]

----------------------------------------------------------------------------
(* Cohere: chatStream events *)

CohereEvent(eventType, text, toolCalls, finishReason, response) ==
    [eventType |-> eventType, text |-> text, toolCalls |-> toolCalls,
     finishReason |-> finishReason, response |-> response]
CohereResponse(tokens, toolCalls) == [tokens |-> tokens, toolCalls |-> toolCalls]
CohereToolCall(name, parameters) == [name |-> name, parameters |-> parameters]

CohereEvents ==
    {CohereEvent("text-generation", Some(f), None, None, None) : f \in TextFrags}
    \cup {CohereEvent("tool-calls-generation", None,
              Some(<<CohereToolCall(n, None)>>), None, None) : n \in ToolNames}
    \cup {CohereEvent("tool-calls-chunk", Some(a), None, None, None) : a \in ArgFrags}
    \cup {CohereEvent("stream-end", None, None, Some("COMPLETE"),
              Some(CohereResponse(Some([inputTokens |-> 5, outputTokens |-> 1]), None)))}
    \cup {CohereEvent("stream-end", None, None, Some("COMPLETE"), None)}
    \cup {CohereEvent("stream-end", None, None, Some("COMPLETE"),
              Some(CohereResponse(None,
                  Some(<<CohereToolCall(n, Some(ObjectA1))>>))))
          : n \in ToolNames}

CohereStreamId(name, tag, t) == name \o tag \o ToString(t)

RECURSIVE CohereInit(_, _)
\* accumulatedToolCallParams[tc.name] = '' for every announced tool call
CohereInit(st, tcs) ==
    IF tcs = <<>> THEN st ELSE CohereInit(MapPut(st, Head(tcs).name, ""), Tail(tcs))

\* CohereProvider.chatStream, body of the for-await loop;
\* st is accumulatedToolCallParams: tool name -> partial JSON
CohereStep(ev, st, h, t) ==
    LET c0 == EmptyChunk(ev)
    IN
    IF ev.eventType = "text-generation" /\ TruthyStr(ev.text)
    THEN [state |-> st, heap |-> h, out |-> Some([c0 EXCEPT !.text = ev.text])]
    ELSE IF ev.eventType = "tool-calls-generation"
    THEN IF IsSome(ev.toolCalls) /\ Len(Val(ev.toolCalls)) > 0
         THEN [state |-> CohereInit(st, Val(ev.toolCalls)), heap |-> h,
               out |-> Some([c0 EXCEPT !.toolCalls =
                     Some([i \in 1..Len(Val(ev.toolCalls)) |->
                         ToolCallByValue(
                             Some(CohereStreamId(Val(ev.toolCalls)[i].name, "-stream-", t)),
                             Some("function"), Some(Val(ev.toolCalls)[i].name), "")])])]
         ELSE [state |-> st, heap |-> h, out |-> Some(c0)]
    ELSE IF ev.eventType = "tool-calls-chunk"
    THEN [state |-> IF Len(st) = 1 /\ TruthyStr(ev.text)
                    THEN MapPut(st, st[1].key, st[1].val \o Val(ev.text))
                    ELSE st,
          heap |-> h, out |-> Some(c0)]
    ELSE IF ev.eventType = "stream-end"
    THEN LET c1 == [c0 EXCEPT !.finishReason =
                       IF IsSome(ev.finishReason)
                       THEN Some(ToUpperCase(Val(ev.finishReason))) ELSE None]
             resp == ev.response
             c2 == IF IsSome(resp) /\ IsSome(Val(resp).tokens)
                   THEN [c1 EXCEPT !.usage =
                           Some([promptTokens |-> Some(Val(Val(resp).tokens).inputTokens),
                                 completionTokens |-> Some(Val(Val(resp).tokens).outputTokens),
                                 totalTokens |-> Some(Val(Val(resp).tokens).inputTokens
                                                      + Val(Val(resp).tokens).outputTokens)])]
                   ELSE c1
             finalToolCalls ==
                 [i \in 1..Len(st) |->
                     ToolCallByValue(Some(CohereStreamId(st[i].key, "-stream-final-", t)),
                                     Some("function"), Some(st[i].key), st[i].val)]
             c3 == IF ~IsSome(resp) THEN c2
                   ELSE IF Len(finalToolCalls) > 0
                   THEN [c2 EXCEPT !.toolCalls = Some(finalToolCalls)]
                   ELSE IF IsSome(Val(resp).toolCalls) /\ Len(Val(Val(resp).toolCalls)) > 0
                   THEN [c2 EXCEPT !.toolCalls =
                           Some([i \in 1..Len(Val(Val(resp).toolCalls)) |->
                               ToolCallByValue(
                                   Some(CohereStreamId(Val(Val(resp).toolCalls)[i].name,
                                                       "-stream-end-", t)),
                                   Some("function"), Some(Val(Val(resp).toolCalls)[i].name),
                                   JsonStringifyOrEmpty(Val(Val(resp).toolCalls)[i].parameters))])]
                   ELSE c2
         IN [state |-> st, heap |-> h, out |-> Some(c3)]
    ELSE [state |-> st, heap |-> h, out |-> Some(c0)]

----------------------------------------------------------------------------
(* Canonical messages (ChatMessage) *)

StringContent(t) == [kind |-> "string", text |-> t, parts |-> <<>>]
PartsContent(ps) == [kind |-> "parts", text |-> "", parts |-> ps]
NullContent == [kind |-> "null", text |-> "", parts |-> <<>>]

TextPart(t) == [type |-> "text", text |-> t, content |-> ""]
ToolOutputPart(c) == [type |-> "tool_output", text |-> "", content |-> c]

Message(role, content, tool_calls, tool_call_id, name) ==
    [role |-> role, content |-> content, tool_calls |-> tool_calls,
     tool_call_id |-> tool_call_id, name |-> name]

\* an element of an assistant message's tool_calls
MsgToolCall(id, name, arguments) ==
    [id |-> id, type |-> "function", function |-> [name |-> name, arguments |-> arguments]]

UserMsg == Message("user", StringContent("2+2?"), None, None, None)
SystemMsg == Message("system", StringContent("Be brief"), None, None, None)
AssistantMsg == Message("assistant", StringContent("4"), None, None, None)
AssistantCallMsg ==
    Message("assistant", NullContent,
            Some(<<MsgToolCall("call_0", "get_current_weather", "{\"a\":1}")>>), None, None)
ToolMsg ==
    Message("tool", PartsContent(<<ToolOutputPart("59")>>), None, Some("call_0"),
            Some("get_current_weather"))
OrphanToolMsg ==
    Message("tool", PartsContent(<<ToolOutputPart("59")>>), None, Some("call_9"),
            Some("get_current_weather"))

\* a tool result that does not repeat the function name
UnnamedToolMsg ==
    Message("tool", PartsContent(<<ToolOutputPart("59")>>), None, Some("call_0"), None)

\* an assistant turn with two tool calls, the second with arguments that are
\* not JSON
TwoCallsMsg ==
    Message("assistant", NullContent,
            Some(<<MsgToolCall("call_0", "get_current_weather", "{\"a\":1}"),
                   MsgToolCall("call_1", "get_current_weather", "{\"a\":")>>), None, None)

\* conversations whose assistant turn is TwoCallsMsg, without and with the
\* result of its first call
BrokenTurns == {<<UserMsg, TwoCallsMsg>>, <<UserMsg, TwoCallsMsg, ToolMsg>>}

\* an assistant turn with neither content nor tool calls
EmptyAssistantMsg == Message("assistant", NullContent, None, None, None)

\* conversations in which an empty assistant turn follows an assistant turn
EmptyTurns == {<<UserMsg, AssistantMsg, EmptyAssistantMsg>>,
               <<UserMsg, EmptyAssistantMsg, EmptyAssistantMsg>>,
               <<UserMsg, EmptyAssistantMsg, UserMsg>>}

\* a second system message, with a text of its own
OtherSystemMsg == Message("system", StringContent("Use SI units"), None, None, None)

\* conversations with two system messages
TwoSystemTurns == {<<SystemMsg, OtherSystemMsg, UserMsg>>,
                   <<SystemMsg, UserMsg, OtherSystemMsg>>}

\* a user message with plain text t
UserTextMsg(t) == Message("user", StringContent(t), None, None, None)

\* texts with whitespace at both ends and inside, and the empty text
PlainTexts == {" 4 ", "a  b", ""}

MsgAlphabet == {UserMsg, SystemMsg, AssistantMsg, AssistantCallMsg, ToolMsg, OrphanToolMsg,
                UnnamedToolMsg}

MaxMsgs == 3

RECURSIVE SeqsUpTo(_, _)
SeqsUpTo(S, n) ==
    IF n = 0 THEN {<<>>}
    ELSE LET shorter == SeqsUpTo(S, n - 1)
         IN shorter \cup {Append(q, x) : q \in {r \in shorter : Len(r) = n - 1}, x \in S}

MsgLists == SeqsUpTo(MsgAlphabet, MaxMsgs)

\* the input of generate: a bare prompt or a message list; NoInput for the
\* calls that take a message list directly
PromptInput(s) == [kind |-> "string", text |-> s, list |-> <<>>]
ListInput(l) == [kind |-> "array", text |-> "", list |-> l]
NoInput == [kind |-> "none", text |-> "", list |-> <<>>]

\* _prepareInputAsMessages
PrepareInputAsMessages(in) ==
    IF in.kind = "string"
    THEN <<Message("user", StringContent(in.text), None, None, None)>>
    ELSE in.list

\* JSON.parse on the arguments vocabulary; ok = FALSE stands for a SyntaxError
JsonParse(str) ==
    CASE str = "{\"a\":1}" -> [ok |-> TRUE, value |-> ObjectA1]
      [] str = "{}" -> [ok |-> TRUE, value |-> EmptyObject]
      [] OTHER -> [ok |-> FALSE, value |-> EmptyObject]

\* parts.filter(p => p.type === 'text').map(p => p.text).join(sep)
RECURSIVE JoinText(_, _)
JoinText(parts, sep) ==
    LET texts == SelectSeq(parts, LAMBDA q : q.type = "text")
    IN IF texts = <<>> THEN ""
       ELSE IF Len(texts) = 1 THEN texts[1].text
       ELSE texts[1].text \o sep \o JoinText(Tail(texts), sep)

----------------------------------------------------------------------------
(* Errors *)

\* a request error built without its originalError argument
LLMPlugRequestErrorNoCause(p, what, cause) ==
    [name |-> "LLMPlugRequestError", provider |-> p, what |-> what, originalError |-> None]

\* new LLMPlugRequestError(message, provider, originalError)
LLMPlugRequestError(p, what, cause) ==
    [name |-> "LLMPlugRequestError", provider |-> p, what |-> what, originalError |-> cause]
LLMPlugToolError(p, what, toolName) ==
    [name |-> "LLMPlugToolError", provider |-> p, what |-> what, originalError |-> None,
     toolName |-> toolName]
\* new LLMPlugConfigurationError(message, provider[, originalError]): the
\* constructor takes two parameters and passes two on, so a third argument
\* is dropped
LLMPlugConfigurationError(p, what, cause) ==
    [name |-> "LLMPlugConfigurationError", provider |-> p, what |-> what,
     originalError |-> None]
LLMPlugError(p, what) ==
    [name |-> "LLMPlugError", provider |-> p, what |-> what, originalError |-> None]
\* an error of the JavaScript runtime that reaches the caller unwrapped
RuntimeError(kind) ==
    [name |-> kind, provider |-> "", what |-> kind, originalError |-> None]

Ok(v) == [ok |-> TRUE, value |-> v, error |-> None]
Fail(e) == [ok |-> FALSE, value |-> <<>>, error |-> Some(e)]

----------------------------------------------------------------------------
(* OpenAI wire format: outbound messages *)

ApiMessage(role, content, name, tool_calls, tool_call_id) ==
    [role |-> role, content |-> content, name |-> name, tool_calls |-> tool_calls,
     tool_call_id |-> tool_call_id]

\* BaseProvider._normalizeContent: strings and text parts pass through
NormalizeContent(content) == content

\* OpenAIProvider._formatMessagesForOpenAI
FormatMessagesForOpenAI(msgs) ==
    [i \in 1..Len(msgs) |->
        ApiMessage(msgs[i].role, NormalizeContent(msgs[i].content),
                   IF TruthyStr(msgs[i].name) THEN msgs[i].name ELSE None,
                   msgs[i].tool_calls,
                   IF TruthyStr(msgs[i].tool_call_id) THEN msgs[i].tool_call_id ELSE None)]

\* a content that carries a message text twice
DoubledContentForAPI(msg) == StringContent(msg.content.text \o msg.content.text)

\* content of one message in _formatMessages of OpenRouter, Ollama and the
\* generic provider
ContentForAPI(msg) ==
    IF msg.content.kind = "parts"
    THEN LET kept == SelectSeq(msg.content.parts, LAMBDA q : q.type = "text")
         IN IF Len(kept) = 0 /\ msg.role /= "assistant" /\ msg.role /= "tool"
            THEN StringContent("")
            ELSE IF Len(kept) = 0 /\ msg.role = "assistant"
                    /\ IsSome(msg.tool_calls) /\ Len(Val(msg.tool_calls)) > 0
            THEN NullContent
            ELSE PartsContent(kept)
    ELSE msg.content

\* OpenRouterProvider / OllamaProvider / GenericOpenAICompatibleProvider _formatMessages
FormatMessages(msgs) ==
    [i \in 1..Len(msgs) |->
        ApiMessage(msgs[i].role, ContentForAPI(msgs[i]),
                   IF TruthyStr(msgs[i].name) THEN msgs[i].name ELSE None,
                   msgs[i].tool_calls,
                   IF TruthyStr(msgs[i].tool_call_id) THEN msgs[i].tool_call_id ELSE None)]

\* MistralProvider._prepareMessages, one message
MistralMessage(msg) ==
    LET outputs == SelectSeq(msg.content.parts, LAMBDA q : q.type = "tool_output")
        contentText ==
            IF msg.content.kind = "string" THEN msg.content.text
            ELSE IF msg.content.kind = "parts"
            THEN IF msg.role = "tool" /\ Len(outputs) > 0
                 THEN outputs[1].content
                 ELSE JoinText(msg.content.parts, "\n")
            ELSE ""
        calls == IF msg.role = "assistant" /\ IsSome(msg.tool_calls)
                    /\ Len(Val(msg.tool_calls)) > 0
                 THEN msg.tool_calls ELSE None
    IN ApiMessage(msg.role, StringContent(contentText), None, calls,
                  IF msg.role = "tool" /\ TruthyStr(msg.tool_call_id)
                  THEN msg.tool_call_id ELSE None)

\* MistralProvider._prepareMessages
MistralPrepareMessages(msgs) == [i \in 1..Len(msgs) |-> MistralMessage(msgs[i])]

----------------------------------------------------------------------------
(* Anthropic: outbound messages *)

\* the system text of a system message (Anthropic, Google): a string as is,
\* an array starting with a text part joined with newlines, otherwise nothing
SystemTextOf(msg) ==
    IF msg.content.kind = "string" THEN Some(msg.content.text)
    ELSE IF msg.content.kind = "parts" /\ Len(msg.content.parts) > 0
            /\ msg.content.parts[1].type = "text"
    THEN Some(JoinText([i \in 1..Len(msg.content.parts) |->
                          TextPart(msg.content.parts[i].text)], "\n"))
    ELSE None

\* content blocks built from the content of one message
AnthropicContentBlocks(msg) ==
    IF msg.content.kind = "parts"
    THEN LET used == SelectSeq(msg.content.parts,
                        LAMBDA q : q.type = "text"
                                   \/ (q.type = "tool_output" /\ msg.role = "tool"))
         IN [i \in 1..Len(used) |->
                IF used[i].type = "text"
                THEN [type |-> "text", text |-> used[i].text]
                ELSE [type |-> "tool_result", tool_use_id |-> msg.tool_call_id,
                      content |-> used[i].content]]
    ELSE IF msg.content.kind = "string"
    THEN <<[type |-> "text", text |-> msg.content.text]>>
    ELSE <<>>

\* tool_use blocks of an assistant message; ok = FALSE when JSON.parse throws
AnthropicToolUse(msg) ==
    IF msg.role = "assistant" /\ IsSome(msg.tool_calls) /\ Len(Val(msg.tool_calls)) > 0
    THEN LET tcs == Val(msg.tool_calls)
         IN IF \E i \in 1..Len(tcs) : ~JsonParse(tcs[i].function.arguments).ok
            THEN Fail(RuntimeError("SyntaxError"))
            ELSE Ok([i \in 1..Len(tcs) |->
                       [type |-> "tool_use", id |-> tcs[i].id, name |-> tcs[i].function.name,
                        input |-> JsonParse(tcs[i].function.arguments).value]])
    ELSE Ok(<<>>)

RECURSIVE AnthropicLoop(_, _, _)
\* the for loop of AnthropicProvider._prepareMessages over msgs[i..]
AnthropicLoop(msgs, i, acc) ==
    IF i > Len(msgs) THEN Ok(acc)
    ELSE
    LET msg == msgs[i]
    IN IF msg.role = "system"
       THEN AnthropicLoop(msgs, i + 1,
                IF IsSome(SystemTextOf(msg))
                THEN [acc EXCEPT !.systemPrompt = SystemTextOf(msg)] ELSE acc)
       ELSE
       LET role == IF msg.role = "tool" THEN "user" ELSE msg.role
           uses == AnthropicToolUse(msg)
           blocks == AnthropicContentBlocks(msg) \o uses.value
           results == SelectSeq(blocks, LAMBDA b : b.type = "tool_result")
       IN IF ~uses.ok THEN uses
          ELSE IF msg.role = "tool"
          THEN IF results = <<>>
               THEN Fail(LLMPlugRequestError("Anthropic", "tool message without tool_output", None))
               ELSE AnthropicLoop(msgs, i + 1,
                        [acc EXCEPT !.anthropicMessages =
                            Append(@, [role |-> "user", content |-> <<results[1]>>])])
          ELSE IF Len(blocks) > 0
          THEN AnthropicLoop(msgs, i + 1,
                   [acc EXCEPT !.anthropicMessages =
                       Append(@, [role |-> role, content |-> blocks])])
          ELSE IF msg.role = "assistant" /\ msg.content.kind = "null"
          THEN AnthropicLoop(msgs, i + 1,
                   [acc EXCEPT !.anthropicMessages =
                       Append(@, [role |-> "assistant", content |-> <<>>])])
          ELSE AnthropicLoop(msgs, i + 1, acc)

\* AnthropicProvider._prepareMessages
AnthropicPrepareMessages(msgs) ==
    LET r == AnthropicLoop(msgs, 1, [systemPrompt |-> None, anthropicMessages |-> <<>>])
    IN IF ~r.ok THEN r
       ELSE IF ~TruthyStr(r.value.systemPrompt) /\ Len(r.value.anthropicMessages) = 0
       THEN Fail(LLMPlugRequestError("Anthropic", "no user message or system prompt", None))
       ELSE r

----------------------------------------------------------------------------
(* Cohere: outbound messages *)

\* messages.filter(assistant with tool_calls).flatMap(m => m.tool_calls)
AllToolCalls(msgs) ==
    FlattenSeq([i \in 1..Len(msgs) |->
        IF msgs[i].role = "assistant" /\ IsSome(msgs[i].tool_calls)
        THEN Val(msgs[i].tool_calls) ELSE <<>>])

\* parameters of the tool calls of an assistant message; ok = FALSE when JSON.parse throws
CohereCalls(tcs) ==
    IF \E i \in 1..Len(tcs) : ~JsonParse(OrStr(Some(tcs[i].function.arguments), "{}")).ok
    THEN Fail(RuntimeError("SyntaxError"))
    ELSE Ok([i \in 1..Len(tcs) |->
               [name |-> tcs[i].function.name,
                parameters |-> JsonParse(OrStr(Some(tcs[i].function.arguments), "{}")).value]])

RECURSIVE CohereLoop(_, _, _)
\* the for loop of CohereProvider._formatMessagesForCohere over msgs[i..]
CohereLoop(msgs, i, acc) ==
    IF i > Len(msgs) THEN Ok(acc)
    ELSE
    LET msg == msgs[i]
        outputs == SelectSeq(msg.content.parts, LAMBDA q : q.type = "tool_output")
        found == SelectSeq(AllToolCalls(msgs), LAMBDA tc : Some(tc.id) = msg.tool_call_id)
        messageText == IF msg.content.kind = "string" THEN msg.content.text
                       ELSE IF msg.content.kind = "parts"
                       THEN JoinText(msg.content.parts, "\n") ELSE ""
        cohereRole == IF msg.role = "user" THEN "USER" ELSE "CHATBOT"
    IN
    IF msg.role = "system"
    THEN IF msg.content.kind = "null" THEN Fail(RuntimeError("TypeError"))
         ELSE CohereLoop(msgs, i + 1,
             [acc EXCEPT !.preamble =
                 Some(IF msg.content.kind = "string" THEN msg.content.text
                      ELSE JoinText([k \in 1..Len(msg.content.parts) |->
                                       TextPart(IF msg.content.parts[k].type = "text"
                                                THEN msg.content.parts[k].text ELSE "")],
                                    "\n"))])
         \* end of the system branch
    ELSE IF msg.role = "tool"
    THEN IF ~TruthyStr(msg.tool_call_id) \/ msg.content.kind /= "parts"
         THEN Fail(LLMPlugToolError("Cohere", "tool message needs tool_call_id and array content",
                                    msg.name))
         ELSE IF outputs = <<>>
         THEN Fail(LLMPlugToolError("Cohere", "tool message needs a tool_output part", msg.name))
         ELSE IF found = <<>>
         THEN Fail(LLMPlugToolError("Cohere", "original tool call not found", msg.name))
         ELSE LET call == CohereCalls(<<found[1]>>)
              IN IF ~call.ok THEN call
                 ELSE CohereLoop(msgs, i + 1,
                          [acc EXCEPT !.messages =
                              Append(@, [role |-> "TOOL",
                                         toolResults |->
                                           <<[call |-> call.value[1],
                                              outputs |-> <<[result |-> outputs[1].content]>>]>>])])
    ELSE IF msg.role = "assistant" /\ IsSome(msg.tool_calls) /\ Len(Val(msg.tool_calls)) > 0
    THEN LET calls == CohereCalls(Val(msg.tool_calls))
         IN IF ~calls.ok THEN calls
            ELSE CohereLoop(msgs, i + 1,
                     [acc EXCEPT !.messages =
                         Append(@, [role |-> "CHATBOT",
                                    message |-> IF messageText /= "" THEN messageText ELSE " ",
                                    toolCalls |-> calls.value])])
    ELSE IF messageText /= ""
    THEN CohereLoop(msgs, i + 1,
             [acc EXCEPT !.messages = Append(@, [role |-> cohereRole, message |-> messageText])])
    ELSE IF cohereRole = "CHATBOT"
    THEN CohereLoop(msgs, i + 1,
             [acc EXCEPT !.messages = Append(@, [role |-> "CHATBOT", message |-> " "])])
    ELSE CohereLoop(msgs, i + 1, acc)

\* CohereProvider._formatMessagesForCohere
FormatMessagesForCohere(msgs) == CohereLoop(msgs, 1, [preamble |-> None, messages |-> <<>>])

----------------------------------------------------------------------------
(* Google: outbound messages *)

\* a model test that takes every model for an older one
NeverGemini15(cfg) == FALSE

\* this.defaultModel.startsWith('gemini-1.5')
IsGemini15(cfg) == cfg.defaultModel = Some("gemini-1.5-pro")

\* index of the first element satisfying Test, 0 when there is none (findIndex)
FindIndex(s, Test(_)) ==
    LET hits == SelectIdx(s, Test) IN IF hits = <<>> THEN 0 ELSE hits[1]

\* the system text GoogleProvider._prepareMessages extracts: that of the first system message
GoogleSystemText(msgs) ==
    LET k == FindIndex(msgs, LAMBDA m : m.role = "system")
    IN IF k = 0 THEN ""
       ELSE IF IsSome(SystemTextOf(msgs[k])) THEN Val(SystemTextOf(msgs[k])) ELSE ""

\* the caller's message list after _prepareMessages: for models older than 1.5 the
\* system text is written into the first user message, in place
GoogleMutatedMessages(msgs, cfg) ==
    LET sys == GoogleSystemText(msgs)
        u == FindIndex(msgs, LAMBDA m : m.role = "user")
    IN IF sys = "" \/ IsGemini15(cfg) \/ u = 0 THEN msgs
       ELSE IF msgs[u].content.kind = "string"
       THEN [msgs EXCEPT ![u].content = StringContent(sys \o "\n\n" \o @.text)]
       ELSE IF msgs[u].content.kind = "parts"
       THEN LET t == FindIndex(msgs[u].content.parts, LAMBDA q : q.type = "text")
            IN IF t /= 0
               THEN [msgs EXCEPT ![u].content.parts[t].text = sys \o "\n\n" \o @]
               ELSE [msgs EXCEPT ![u].content.parts = <<TextPart(sys)>> \o @]
       ELSE msgs

\* parts of one operational message; ok = FALSE when JSON.parse throws
GeminiParts(msg) ==
    LET fromContent ==
            IF msg.content.kind = "parts"
            THEN LET used == SelectSeq(msg.content.parts,
                                LAMBDA q : q.type = "text"
                                           \/ (q.type = "tool_output" /\ msg.role = "tool"
                                               /\ TruthyStr(msg.tool_call_id)))
                 IN [i \in 1..Len(used) |->
                        IF used[i].type = "text" THEN [text |-> used[i].text]
                        ELSE [functionResponse |->
                                 [name |-> msg.name, response |-> used[i].content]]]
            ELSE IF msg.content.kind = "string" THEN <<[text |-> msg.content.text]>>
            ELSE <<>>
        tcs == IF msg.role = "assistant" /\ IsSome(msg.tool_calls) THEN Val(msg.tool_calls)
               ELSE <<>>
    IN IF \E i \in 1..Len(tcs) : ~JsonParse(OrStr(Some(tcs[i].function.arguments), "{}")).ok
       THEN Fail(LLMPlugRequestError("Google", "failed to parse tool call arguments",
                                     Some(RuntimeError("SyntaxError"))))
       ELSE Ok(fromContent \o
               [i \in 1..Len(tcs) |->
                   [functionCall |->
                       [name |-> tcs[i].function.name,
                        args |-> JsonParse(OrStr(Some(tcs[i].function.arguments), "{}")).value]]])

RECURSIVE GeminiLoop(_, _, _)
\* the loop over operationalMessages; history is the accumulator
GeminiLoop(ops, i, history) ==
    IF i > Len(ops) THEN Ok(history)
    ELSE
    LET msg == ops[i]
        geminiRole == IF msg.role = "assistant" THEN "model" ELSE "user"
        ps == GeminiParts(msg)
    IN IF ~ps.ok THEN ps
       ELSE IF Len(ps.value) > 0
       THEN IF Len(history) > 0 /\ history[Len(history)].role = geminiRole
            THEN GeminiLoop(ops, i + 1,
                     [history EXCEPT ![Len(history)].parts = @ \o ps.value])
            ELSE GeminiLoop(ops, i + 1,
                     Append(history, [role |-> geminiRole, parts |-> ps.value]))
       ELSE IF geminiRole = "model" /\ msg.content.kind = "null"
               /\ (~IsSome(msg.tool_calls) \/ Len(Val(msg.tool_calls)) = 0)
       THEN GeminiLoop(ops, i + 1, Append(history, [role |-> "model", parts |-> <<>>]))
       ELSE GeminiLoop(ops, i + 1, history)

\* GoogleProvider._prepareMessages; value = [systemInstruction, history, messages]
\* with messages the caller's list as the call leaves it
GooglePrepareMessages(msgs, cfg) ==
    LET sys == GoogleSystemText(msgs)
        mutated == GoogleMutatedMessages(msgs, cfg)
        seed == IF sys /= "" /\ ~IsGemini15(cfg)
                   /\ FindIndex(msgs, LAMBDA m : m.role = "user") = 0
                THEN <<[role |-> "user", parts |-> <<[text |-> sys]>>]>>
                ELSE <<>>
        r == GeminiLoop(SelectSeq(mutated, LAMBDA m : m.role /= "system"), 1, seed)
    IN IF ~r.ok THEN r
       ELSE Ok([systemInstruction |->
                   IF sys /= "" /\ IsGemini15(cfg) THEN Some(sys) ELSE None,
                history |-> r.value,
                messages |-> mutated])

----------------------------------------------------------------------------
(* Hugging Face: conversational payload *)

\* text of a message as HuggingFaceProvider.chat reads it; ok = FALSE for null content
HFContentText(msg) ==
    IF msg.content.kind = "string" THEN Ok(msg.content.text)
    ELSE IF msg.content.kind = "parts" THEN Ok(JoinText(msg.content.parts, ""))
    ELSE Fail(RuntimeError("TypeError"))

\* the list left as it is, without a placeholder
HFNoPlaceholder(past, responses) == past

\* if (pastUserInputs.length < generatedResponses.length) pastUserInputs.push("")
HFPlaceholder(past, responses) ==
    IF Len(past) < Len(responses) THEN Append(past, "") ELSE past

RECURSIVE HFLoop(_, _, _)
\* messages.forEach of HuggingFaceProvider.chat
HFLoop(msgs, i, acc) ==
    IF i > Len(msgs) THEN Ok(acc)
    ELSE
    LET msg == msgs[i]
        ct == HFContentText(msg)
        t == ct.value
    IN IF ~ct.ok THEN ct
       ELSE IF msg.role = "system"
       THEN HFLoop(msgs, i + 1,
                [acc EXCEPT !.systemPrompt =
                    @ \o (IF @ /= "" THEN "\n" ELSE "") \o t])
       ELSE IF msg.role = "user"
       THEN HFLoop(msgs, i + 1,
                IF acc.currentQuery /= ""
                THEN [acc EXCEPT !.pastUserInputs = Append(@, acc.currentQuery),
                                 !.generatedResponses = Append(@, ""),
                                 !.currentQuery = t]
                ELSE [acc EXCEPT !.currentQuery = t])
       ELSE IF msg.role = "assistant"
       THEN HFLoop(msgs, i + 1,
                IF acc.currentQuery /= ""
                THEN [acc EXCEPT !.pastUserInputs = Append(@, acc.currentQuery),
                                 !.generatedResponses = Append(@, t),
                                 !.currentQuery = ""]
                ELSE [acc EXCEPT !.generatedResponses = Append(@, t),
                                 !.pastUserInputs =
                                     HFPlaceholder(@, Append(acc.generatedResponses, t))])
       ELSE HFLoop(msgs, i + 1, acc)

\* HuggingFaceProvider.chat up to the payload's inputs
HFPrepareInputs(msgs) ==
    LET r == HFLoop(msgs, 1, [pastUserInputs |-> <<>>, generatedResponses |-> <<>>,
                              currentQuery |-> "", systemPrompt |-> ""])
        q == IF r.value.systemPrompt /= ""
             THEN r.value.systemPrompt \o "\n" \o r.value.currentQuery
             ELSE r.value.currentQuery
    IN IF ~r.ok THEN r
       ELSE IF q = ""
       THEN Fail(LLMPlugRequestError("HuggingFace", "no current user message", None))
       ELSE Ok([text |-> q, past_user_inputs |-> r.value.pastUserInputs,
                generated_responses |-> r.value.generatedResponses])

\* String(content) of JavaScript's + on a message content
HFCoerce(c) ==
    IF c.kind = "string" THEN c.text
    ELSE IF c.kind = "null" THEN "null"
    ELSE JoinLines([i \in 1..Len(c.parts) |-> "[object Object]"], ",")

\* a content as a condition: null and "" are falsy
HFTruthy(c) == ~(c.kind = "null" \/ (c.kind = "string" /\ c.text = ""))

RECURSIVE HFEarlierLoop(_, _, _)
\* messages.forEach of the earlier HuggingFaceProvider.chat, which pushes the
\* contents as they are
HFEarlierLoop(msgs, i, acc) ==
    IF i > Len(msgs) THEN acc
    ELSE
    LET msg == msgs[i]
    IN IF msg.role = "user"
       THEN HFEarlierLoop(msgs, i + 1,
                IF HFTruthy(acc.currentQuery)
                THEN [acc EXCEPT !.pastUserInputs = Append(@, acc.currentQuery),
                                 !.generatedResponses = Append(@, StringContent("")),
                                 !.currentQuery = msg.content]
                ELSE [acc EXCEPT !.currentQuery = msg.content])
       ELSE IF msg.role = "assistant"
       THEN HFEarlierLoop(msgs, i + 1,
                [acc EXCEPT !.pastUserInputs = Append(@, acc.currentQuery),
                            !.generatedResponses = Append(@, msg.content),
                            !.currentQuery = StringContent("")])
       ELSE IF msg.role = "system"
       THEN HFEarlierLoop(msgs, i + 1,
                [acc EXCEPT !.currentQuery =
                    StringContent(HFCoerce(msg.content) \o "\n" \o
                        (IF HFTruthy(@) THEN HFCoerce(@) ELSE ""))])
       ELSE HFEarlierLoop(msgs, i + 1, acc)

\* the two lists of the earlier HuggingFaceProvider.chat after the loop
HFEarlierInputs(msgs) ==
    HFEarlierLoop(msgs, 1, [pastUserInputs |-> <<>>, generatedResponses |-> <<>>,
                            currentQuery |-> StringContent("")])

----------------------------------------------------------------------------
(* Options (GenerationOptions) *)

WeatherTool == [name |-> "get_current_weather", description |-> "weather", parameters |-> "schema"]

StringChoice(v) == [kind |-> "string", value |-> v, name |-> ""]
FunctionChoice(n) == [kind |-> "function", value |-> "", name |-> n]

ExtraParams(topP, randomSeed, seed) == [topP |-> topP, randomSeed |-> randomSeed, seed |-> seed]

NoOptions ==
    [model |-> None, temperature |-> None, maxTokens |-> None, stopSequences |-> None,
     tools |-> None, toolChoice |-> None, responseFormat |-> None,
     extraParams |-> ExtraParams(None, None, None)]

\* temperature in tenths
AllOptions ==
    [model : {None, Some("custom-model")},
     temperature : {None, Some(7)},
     maxTokens : {None, Some(256)},
     stopSequences : {None, Some(<<"END">>)},
     tools : {None, Some(<<WeatherTool>>)},
     toolChoice : {None, Some(StringChoice("none")), Some(FunctionChoice("get_current_weather"))},
     responseFormat : {None, Some([type |-> "json_object"])},
     extraParams : [topP : {None, Some(9)}, randomSeed : {None, Some(42)},
                    seed : {None, Some(42)}]]

MaxSetOptions == 2

\* number of options the caller sets
SetCount(o) ==
    Cardinality({f \in {"model", "temperature", "maxTokens", "stopSequences", "tools",
                        "toolChoice", "responseFormat"} : IsSome(o[f])})
    + Cardinality({f \in {"topP", "randomSeed", "seed"} : IsSome(o.extraParams[f])})

OptionSets == {o \in AllOptions : SetCount(o) <= MaxSetOptions}

\* provider configurations: defaultModel as the constructor leaves it
Configs(p) ==
    CASE p = "OpenAI" -> {[defaultModel |-> Some("gpt-3.5-turbo")]}
      [] p = "Anthropic" -> {[defaultModel |-> Some("claude-3-haiku-20240307")]}
      [] p = "Google" -> {[defaultModel |-> Some("gemini-1.0-pro")],
                          [defaultModel |-> Some("gemini-1.5-pro")]}
      [] p = "Cohere" -> {[defaultModel |-> Some("command-r")]}
      [] p = "Mistral" -> {[defaultModel |-> Some("mistral-small-latest")]}
      [] p = "HuggingFace" -> {[defaultModel |-> Some("gpt2")]}
      [] OTHER -> {[defaultModel |-> None], [defaultModel |-> Some("local-model")]}

\* options.model || this.defaultModel
ModelOf(opts, cfg) == IF TruthyStr(opts.model) THEN opts.model ELSE cfg.defaultModel

StreamFlag(m) == IF m = "chatStream" THEN Some(TRUE) ELSE None

----------------------------------------------------------------------------
(* Request building: chat and chatStream up to the transport call.          *)
(* A request field that is None is undefined in the request object and so  *)
(* absent from the serialized request.                                     *)

\* OpenAIProvider.chat / chatStream: requestParams
OpenAIRequest(m, msgs, opts, cfg) ==
    Ok([model |-> ModelOf(opts, cfg),
        messages |-> FormatMessagesForOpenAI(msgs),
        temperature |-> opts.temperature,
        max_tokens |-> opts.maxTokens,
        stop |-> opts.stopSequences,
        tools |-> opts.tools,
        tool_choice |-> opts.toolChoice,
        response_format |-> opts.responseFormat,
        stream |-> StreamFlag(m),
        extra |-> opts.extraParams])

\* a model lookup that never refuses
GetModelAnyway(p, opts, cfg) == Ok(ModelOf(opts, cfg))

\* _getModel of OpenRouter, Ollama and the generic provider
GetModel(p, opts, cfg) ==
    IF TruthyStr(ModelOf(opts, cfg)) THEN Ok(ModelOf(opts, cfg))
    ELSE Fail([name |-> "LLMPlugConfigurationError", provider |-> p,
               what |-> "model must be specified", originalError |-> None])

\* OpenRouterProvider and GenericOpenAICompatibleProvider chat / chatStream: requestParams
OpenRouterRequest(p, m, msgs, opts, cfg) ==
    IF ~GetModel(p, opts, cfg).ok THEN GetModel(p, opts, cfg)
    ELSE Ok([model |-> ModelOf(opts, cfg),
             messages |-> FormatMessages(msgs),
             temperature |-> opts.temperature,
             max_tokens |-> opts.maxTokens,
             stop |-> opts.stopSequences,
             tools |-> opts.tools,
             tool_choice |-> opts.toolChoice,
             response_format |-> opts.responseFormat,
             top_p |-> opts.extraParams.topP,
             stream |-> StreamFlag(m),
             extra |-> opts.extraParams])

\* a seed that falls back to 0 when the caller gave none
OllamaSeedOrZero(x) == OrNum(OrNum(x.randomSeed, x.seed), Some(0))

\* options.extraParams?.randomSeed || options.extraParams?.seed
OllamaSeed(x) == OrNum(x.randomSeed, x.seed)

\* OllamaProvider.chat / chatStream: requestParams
OllamaRequest(m, msgs, opts, cfg) ==
    IF ~GetModel("Ollama", opts, cfg).ok THEN GetModel("Ollama", opts, cfg)
    ELSE LET native == [temperature |-> opts.temperature,
                        num_predict |-> opts.maxTokens,
                        top_p |-> opts.extraParams.topP,
                        stop |-> opts.stopSequences,
                        seed |-> OllamaSeed(opts.extraParams)]
         IN Ok([model |-> ModelOf(opts, cfg),
                messages |-> FormatMessages(msgs),
                temperature |-> opts.temperature,
                max_tokens |-> IF m = "chat" THEN opts.maxTokens ELSE None,
                stop |-> opts.stopSequences,
                tools |-> opts.tools,
                tool_choice |-> opts.toolChoice,
                response_format |-> opts.responseFormat,
                top_p |-> opts.extraParams.topP,
                stream |-> Some(m = "chatStream"),
                options |-> IF \A f \in DOMAIN native : ~IsSome(native[f])
                            THEN None ELSE Some(native)])

DefaultMaxTokens == 1024

\* tools as AnthropicProvider maps them
AnthropicTools(tools) ==
    IF IsSome(tools)
    THEN Some([i \in 1..Len(Val(tools)) |->
                 [name |-> Val(tools)[i].name, description |-> Val(tools)[i].description,
                  input_schema |-> Val(tools)[i].parameters]])
    ELSE None

\* AnthropicProvider.chat / chatStream: _prepareMessages and requestParams
AnthropicRequest(m, msgs, opts, cfg) ==
    LET prep == AnthropicPrepareMessages(msgs)
    IN IF ~prep.ok THEN prep
       ELSE Ok([model |-> ModelOf(opts, cfg),
                messages |-> prep.value.anthropicMessages,
                max_tokens |-> OrNum(opts.maxTokens, Some(DefaultMaxTokens)),
                temperature |-> opts.temperature,
                stop_sequences |-> opts.stopSequences,
                tools |-> AnthropicTools(opts.tools),
                stream |-> StreamFlag(m),
                system |-> IF TruthyStr(prep.value.systemPrompt)
                           THEN prep.value.systemPrompt ELSE None,
                extra |-> opts.extraParams])

\* GoogleProvider.chat / chatStream: _prepareMessages, the model parameters and
\* generationConfig; value.messages is the caller's list as the call leaves it
GoogleRequest(m, msgs, opts, cfg) ==
    LET prep == GooglePrepareMessages(msgs, cfg)
    IN IF ~prep.ok THEN prep
       ELSE IF Len(prep.value.history) = 0 /\ ~IsSome(prep.value.systemInstruction)
       THEN Fail(LLMPlugRequestError("Google", "requires at least one message", None))
       ELSE Ok([model |-> ModelOf(opts, cfg),
                tools |-> IF IsSome(opts.tools)
                          THEN Some([i \in 1..Len(Val(opts.tools)) |->
                                  [functionDeclarations |-> <<Val(opts.tools)[i]>>]])
                          ELSE None,
                systemInstruction |-> prep.value.systemInstruction,
                contents |-> prep.value.history,
                generationConfig |->
                    [temperature |-> opts.temperature,
                     maxOutputTokens |-> opts.maxTokens,
                     stopSequences |-> opts.stopSequences,
                     responseMimeType |->
                         IF IsSome(opts.responseFormat)
                            /\ Val(opts.responseFormat).type = "json_object"
                         THEN Some("application/json") ELSE None],
                stream |-> StreamFlag(m)])

ContinueMessage == "Okay, continue based on the tool results."

\* CohereProvider.chat / chatStream: message, chatHistory and request
CohereRequest(m, msgs, opts, cfg) ==
    LET fmt == FormatMessagesForCohere(msgs)
    IN IF ~fmt.ok THEN fmt
       ELSE
       LET hist == fmt.value.messages
           preamble == fmt.value.preamble
           lastIsUser == Len(hist) > 0 /\ hist[Len(hist)].role = "USER"
           lastIsTool == Len(hist) > 0 /\ hist[Len(hist)].role = "TOOL"
           chatHistory == IF lastIsUser THEN SubSeq(hist, 1, Len(hist) - 1) ELSE hist
           currentMessage == IF lastIsUser THEN hist[Len(hist)].message
                             ELSE IF lastIsTool THEN ContinueMessage ELSE ""
           message == IF currentMessage = ""
                         /\ \A i \in 1..Len(chatHistory) : chatHistory[i].role /= "TOOL"
                      THEN " " ELSE currentMessage
       IN IF Len(hist) = 0 /\ ~TruthyStr(preamble)
          THEN Fail(LLMPlugRequestError("Cohere", "no messages or preamble to send", None))
          ELSE Ok([message |-> message,
                   chatHistory |-> chatHistory,
                   preamble |-> preamble,
                   model |-> ModelOf(opts, cfg),
                   temperature |-> opts.temperature,
                   maxTokens |-> opts.maxTokens,
                   k |-> None,
                   p |-> None,
                   stopSequences |-> opts.stopSequences,
                   tools |-> IF IsSome(opts.tools)
                             THEN Some([i \in 1..Len(Val(opts.tools)) |->
                                     [name |-> Val(opts.tools)[i].name,
                                      description |-> Val(opts.tools)[i].description,
                                      parameterDefinitions |-> None]])
                             ELSE None,
                   stream |-> StreamFlag(m),
                   extra |-> opts.extraParams])

\* toolChoice as MistralProvider.chat and chatStream send it
MistralToolChoice(tc) ==
    IF IsSome(tc) /\ Val(tc).kind = "string" THEN Some(Val(tc).value) ELSE Some("auto")

\* MistralProvider.chat / chatStream: the argument of client.chat / client.chatStream
MistralRequest(m, msgs, opts, cfg) ==
    Ok([model |-> ModelOf(opts, cfg),
        messages |-> MistralPrepareMessages(msgs),
        temperature |-> opts.temperature,
        maxTokens |-> opts.maxTokens,
        topP |-> opts.extraParams.topP,
        randomSeed |-> opts.extraParams.randomSeed,
        tools |-> IF IsSome(opts.tools)
                  THEN Some([i \in 1..Len(Val(opts.tools)) |->
                          [type |-> "function", function |-> Val(opts.tools)[i]]])
                  ELSE None,
        toolChoice |-> MistralToolChoice(opts.toolChoice),
        responseFormat |->
            IF IsSome(opts.responseFormat) /\ Val(opts.responseFormat).type = "json_object"
            THEN Some([type |-> "json_object"]) ELSE None,
        stream |-> StreamFlag(m)])

\* HuggingFaceProvider.chat: payload; chatStream is not implemented
HuggingFaceRequest(m, msgs, opts, cfg) ==
    IF m = "chatStream" THEN Fail(LLMPlugError("HuggingFace", "chatStream not implemented"))
    ELSE LET inputs == HFPrepareInputs(msgs)
         IN IF ~inputs.ok THEN inputs
            ELSE Ok([model |-> ModelOf(opts, cfg),
                     inputs |-> inputs.value,
                     parameters |-> [max_new_tokens |-> opts.maxTokens,
                                     temperature |-> opts.temperature,
                                     stop_sequences |-> opts.stopSequences,
                                     extra |-> opts.extraParams],
                     options |-> [wait_for_model |-> TRUE, use_cache |-> TRUE]])

\* chat / chatStream of provider p up to the transport call
BuildRequest(p, m, msgs, opts, cfg) ==
    CASE p = "OpenAI" -> OpenAIRequest(m, msgs, opts, cfg)
      [] p \in {"OpenRouter", "Generic"} -> OpenRouterRequest(p, m, msgs, opts, cfg)
      [] p = "Ollama" -> OllamaRequest(m, msgs, opts, cfg)
      [] p = "Anthropic" -> AnthropicRequest(m, msgs, opts, cfg)
      [] p = "Google" -> GoogleRequest(m, msgs, opts, cfg)
      [] p = "Cohere" -> CohereRequest(m, msgs, opts, cfg)
      [] p = "Mistral" -> MistralRequest(m, msgs, opts, cfg)
      [] OTHER -> HuggingFaceRequest(m, msgs, opts, cfg)

\* the caller's message list after the call has built its request
MessagesAfter(p, msgs, cfg) ==
    IF p = "Google" THEN GoogleMutatedMessages(msgs, cfg) ELSE msgs

----------------------------------------------------------------------------
(* The example consumer: handleStream of examples/advancedUsage.js *)

\* one tcChunk of chunk.toolCalls.forEach; tcs maps tcChunk.id to the accumulated call
HandleToolCall(tcs, tc, h) ==
    LET fn == FunctionOf(tc, h)
        t1 == IF MapHas(tcs, tc.id) THEN tcs
              ELSE MapPut(tcs, tc.id, [id |-> tc.id, type |-> tc.type,
                                       function |-> [name |-> fn.name, arguments |-> ""]])
        e == MapGet(t1, tc.id)
    IN IF fn.arguments /= ""
       THEN MapPut(t1, tc.id, [e EXCEPT !.function.arguments = @ \o fn.arguments])
       ELSE t1

RECURSIVE HandleToolCalls(_, _, _)
HandleToolCalls(tcs, new, h) ==
    IF new = <<>> THEN tcs
    ELSE HandleToolCalls(HandleToolCall(tcs, Head(new), h), Tail(new), h)

----------------------------------------------------------------------------
(* The provider registry and the constructors *)

\* PROVIDERS of the package entry point, in insertion order; the two local
\* servers are subclasses of the generic OpenAI-compatible provider
PROVIDERS ==
    <<[key |-> "openai", class |-> "OpenAI"],
      [key |-> "anthropic", class |-> "Anthropic"],
      [key |-> "google", class |-> "Google"],
      [key |-> "huggingface", class |-> "HuggingFace"],
      [key |-> "cohere", class |-> "Cohere"],
      [key |-> "mistralai", class |-> "Mistral"],
      [key |-> "openrouter", class |-> "OpenRouter"],
      [key |-> "ollama", class |-> "Ollama"],
      [key |-> "llamacpp", class |-> "Generic"],
      [key |-> "oobabooga", class |-> "Generic"]>>

\* Object.keys(PROVIDERS)
RegistryKeys == [i \in 1..Len(PROVIDERS) |-> PROVIDERS[i].key]

\* names a caller may pass to getProvider
LookupNames ==
    {"openai", "OpenAI", "Anthropic", "GOOGLE", "huggingface", "Cohere", "MistralAI",
     "mistral", "OpenRouter", "ollama", "LlamaCpp", "oobabooga", "generic", "constructor",
     "__proto__"}

\* providerName.toLowerCase() on the names
LowerName(n) ==
    CASE n = "OpenAI" -> "openai"
      [] n = "Anthropic" -> "anthropic"
      [] n = "GOOGLE" -> "google"
      [] n = "Cohere" -> "cohere"
      [] n = "MistralAI" -> "mistralai"
      [] n = "OpenRouter" -> "openrouter"
      [] n = "LlamaCpp" -> "llamacpp"
      [] OTHER -> n

\* PROVIDERS[key]: an own property, a property inherited from
\* Object.prototype, or undefined
Lookup(key) ==
    IF \E i \in 1..Len(PROVIDERS) : PROVIDERS[i].key = key
    THEN [kind |-> "class",
          class |-> PROVIDERS[CHOOSE i \in 1..Len(PROVIDERS) : PROVIDERS[i].key = key].class]
    ELSE IF key = "constructor" THEN [kind |-> "inherited", class |-> "Object"]
    ELSE IF key = "__proto__" THEN [kind |-> "prototype", class |-> ""]
    ELSE [kind |-> "undefined", class |-> ""]

\* the message of the error getProvider throws
UnsupportedProvider(n) ==
    "Unsupported provider: " \o n \o ". Supported providers are: "
    \o JoinLines(RegistryKeys, ", ")

\* what the caller gives: the name, the credential (config key or environment
\* variable), the model of the config, and whether the vendor SDK's client
\* constructor throws
Setup(n, credential, model, clientInit) ==
    [providerName |-> n, credential |-> credential, model |-> model,
     clientInit |-> clientInit]

\* the instance was built before the call
Direct == Setup("", Some("sk-key"), None, "ok")

Setups ==
    {Setup(n, c, m, i) : n \in LookupNames, c \in {None, Some("sk-key")},
                         m \in {None, Some("local-model")}, i \in {"ok", "throws"}}

\* the error the vendor SDK's client constructor throws
ClientInitError ==
    [name |-> "Error", provider |-> "", what |-> "client init", originalError |-> None]

\* providers whose constructor calls _getApiKey and lets its error out
NeedsKey == {"OpenAI", "Anthropic", "Google", "Cohere", "Mistral", "OpenRouter"}

\* `config.defaultModel || '...'` of the constructors with a built-in default
BuiltInModel(p) ==
    CASE p = "OpenAI" -> Some("gpt-3.5-turbo")
      [] p = "Anthropic" -> Some("claude-3-haiku-20240307")
      [] p = "Google" -> Some("gemini-1.0-pro")
      [] p = "Cohere" -> Some("command-r")
      [] p = "Mistral" -> Some("mistral-small-latest")
      [] OTHER -> None

\* new ProviderClass(config): the configuration the instance keeps, or the
\* error the constructor throws
Constructor(p, st) ==
    IF p = "HuggingFace"
    THEN \* a missing token is a warning; a missing modelId is an error
         IF ~TruthyStr(st.model)
         THEN Fail(LLMPlugConfigurationError(p, "modelId is required", None))
         ELSE Ok([defaultModel |-> st.model])
    ELSE IF p \in NeedsKey /\ ~TruthyStr(st.credential)
    THEN Fail(LLMPlugConfigurationError(p, "API key not found", None))
    ELSE IF st.clientInit = "throws"
    THEN Fail(LLMPlugConfigurationError(p, "client initialization failed",
                                        Some(ClientInitError)))
    ELSE Ok([defaultModel |-> IF TruthyStr(st.model) THEN st.model ELSE BuiltInModel(p)])

----------------------------------------------------------------------------
(* The state machine *)

TransportErrors == {[name |-> "APIConnectionError", provider |-> "", what |-> "connection lost",
                     originalError |-> None]}

TypeOK ==
    /\ pc \in {"getProvider", "construct", "start", "await", "pull", "consume", "done",
              "failed", "returning", "returned"}
    /\ method \in {"chat", "chatStream", "generate", "generateStream"}
    /\ transportCalls \in Nat
    /\ Len(received) <= MaxEvents + 1

\* the second call before it is made: its generator has no locals yet
NotCalled == [pc |-> "start", request |-> <<>>, received |-> <<>>, toolState |-> <<>>,
              heap |-> <<>>, yielded |-> <<>>]

InitCommon ==
    /\ pc = "start"
    /\ setup = Direct
    /\ second = NotCalled
    /\ request = None
    /\ transportCalls = 0
    /\ received = <<>>
    /\ toolState = <<>>
    /\ heap = <<>>
    /\ yielded = <<>>
    /\ error = None
    /\ result = None
    /\ now \in Timestamps
    /\ fullText = ""
    /\ hsToolCalls = <<>>
    /\ finalUsage = None
    /\ finalFinishReason = None

\* a chatStream call with one user message and no options, on every provider that streams
Init ==
    /\ InitCommon
    /\ provider \in Providers
    /\ config = [defaultModel |-> Some("configured-model")]
    /\ method = "chatStream"
    /\ genInput = NoInput
    /\ messages = <<UserMsg>>
    /\ options = NoOptions

\* the outcome r of request building: the transport is invoked with the
\* request, or the call fails with the error
\* a call that invokes the transport a second time
SubmitAgain(r) ==
    /\ request' = IF r.ok THEN Some(r.value) ELSE request
    /\ transportCalls' = transportCalls + 2
    /\ pc' = IF method \in {"chatStream", "generateStream"} THEN "pull" ELSE "await"
    /\ UNCHANGED error

Submit(r) ==
    IF r.ok
    THEN /\ request' = Some(r.value)
         /\ transportCalls' = transportCalls + 1
         /\ pc' = IF method \in {"chatStream", "generateStream"} THEN "pull" ELSE "await"
         /\ UNCHANGED error
    ELSE /\ error' = r.error
         /\ pc' = "failed"
         /\ UNCHANGED <<request, transportCalls>>

\* chat / chatStream from its first statement to the transport call
Call ==
    /\ pc = "start"
    /\ method \in {"chat", "chatStream"}
    /\ messages' = MessagesAfter(provider, messages, config)
    /\ Submit(BuildRequest(provider, method, messages, options, config))
    /\ UNCHANGED <<callVars, streamVars, consumerVars, result>>

\* the loop body ran on upstream event ev with outcome r
Deliver(ev, r) ==
    /\ received' = Append(received, ev)
    /\ toolState' = r.state
    /\ heap' = r.heap
    /\ IF IsSome(r.out)
       THEN yielded' = Append(yielded, Val(r.out)) /\ pc' = "consume"
       ELSE UNCHANGED yielded /\ pc' = "pull"
    /\ UNCHANGED <<callVars, messages, consumerVars, request, transportCalls, error, result>>

CanPull == pc = "pull" /\ Len(received) < MaxEvents

OpenAIStreamEvent ==
    /\ CanPull /\ provider = "OpenAI"
    /\ \E ev \in OpenAIWireEvents : Deliver(ev, OpenAIStep(ev, toolState, heap))

IndexKeyedStreamEvent ==
    /\ CanPull /\ provider \in {"OpenRouter", "Ollama", "Generic"}
    /\ \E ev \in OpenAIWireEvents : Deliver(ev, IndexKeyedStep(provider, ev, toolState, heap))

MistralStreamEvent ==
    /\ CanPull /\ provider = "Mistral"
    /\ \E ev \in OpenAIWireEvents : Deliver(ev, MistralStep(ev, toolState, heap))

AnthropicStreamEvent ==
    /\ CanPull /\ provider = "Anthropic"
    /\ \E ev \in AnthropicEvents : Deliver(ev, AnthropicStep(ev, toolState, heap))

GoogleStreamEvent ==
    /\ CanPull /\ provider = "Google"
    /\ \E ev \in GoogleEvents : Deliver(ev, GoogleStep(ev, toolState, heap, now))

CohereStreamEvent ==
    /\ CanPull /\ provider = "Cohere" /\ method = "chatStream"
    /\ \E ev \in CohereEvents : Deliver(ev, CohereStep(ev, toolState, heap, now))

\* handleStream, body of its for-await loop, on the chunk just yielded
HandleStreamChunk ==
    /\ pc = "consume"
    /\ LET chunk == yielded[Len(yielded)]
       IN /\ fullText' = IF TruthyStr(chunk.text) THEN fullText \o Val(chunk.text) ELSE fullText
          /\ hsToolCalls' = IF IsSome(chunk.toolCalls)
                            THEN HandleToolCalls(hsToolCalls, Val(chunk.toolCalls), heap)
                            ELSE hsToolCalls
          /\ finalUsage' = IF IsSome(chunk.usage) THEN chunk.usage ELSE finalUsage
          /\ finalFinishReason' = IF TruthyStr(chunk.finishReason) THEN chunk.finishReason
                                  ELSE finalFinishReason
    /\ pc' = "pull"
    /\ UNCHANGED <<callVars, messages, streamVars, request, transportCalls, error, result>>

\* the upstream sequence ends: the for-await loop and the generator return
TransportClose ==
    /\ pc = "pull"
    /\ pc' = "done"
    /\ UNCHANGED <<callVars, messages, streamVars, consumerVars, request, transportCalls,
                   error, result>>

\* the transport raises inside the try block of chatStream: the catch clause
\* wraps the error in one LLMPlugRequestError
TransportRaise ==
    /\ pc = "pull"
    /\ \E cause \in TransportErrors :
          error' = Some(LLMPlugRequestError(provider, "chat stream failed", Some(cause)))
    /\ pc' = "failed"
    /\ UNCHANGED <<callVars, messages, streamVars, consumerVars, request, transportCalls,
                   result>>

Next ==
    \/ Call
    \/ OpenAIStreamEvent
    \/ IndexKeyedStreamEvent
    \/ MistralStreamEvent
    \/ AnthropicStreamEvent
    \/ GoogleStreamEvent
    \/ CohereStreamEvent
    \/ HandleStreamChunk
    \/ TransportClose
    \/ TransportRaise

Spec == Init /\ [][Next]_vars

----------------------------------------------------------------------------
(* Request building on varied inputs *)

RequestProviders == Providers \cup {"HuggingFace"}

\* chat and chatStream on every provider: any message list with no options,
\* one user message with any option set, one user message of any plain text,
\* a conversation with a tool call whose arguments do not parse, one with an
\* empty assistant turn, or one with two system messages
InitRequest ==
    /\ InitCommon
    /\ provider \in RequestProviders
    /\ config \in Configs(provider)
    /\ method \in {"chat", "chatStream"}
    /\ genInput = NoInput
    /\ \/ messages \in MsgLists /\ options = NoOptions
       \/ messages = <<UserMsg>> /\ options \in OptionSets
       \/ messages \in {<<UserTextMsg(t)>> : t \in PlainTexts} /\ options = NoOptions
       \/ messages \in BrokenTurns /\ options = NoOptions
       \/ messages \in EmptyTurns \cup TwoSystemTurns /\ options = NoOptions

NextRequest == Call

SpecRequest == InitRequest /\ [][NextRequest]_vars

----------------------------------------------------------------------------
(* Response mapping: chat from the transport's answer to its result *)

Words == {"4", "Hel", "lo"}
Pads == {"", " ", "  "}

\* the strings of the response vocabulary that neither start nor end with whitespace
Cores == {""} \cup Words \cup {a \o g \o b : a \in Words, g \in Pads, b \in Words}

\* a trim that removes nothing
NoTrim(s) == s

\* String.prototype.trim: s without its leading and trailing whitespace
Trim(s) == CHOOSE c \in Cores : \E l \in Pads, r \in Pads : s = l \o c \o r

\* s?.trim() || null for an optional string; None stands for null
TrimOrNull(s) == IF IsSome(s) /\ Trim(Val(s)) /= "" THEN Some(Trim(Val(s))) ELSE None

\* s?.toLowerCase() for an optional string
LowerCased(s) == IF IsSome(s) THEN Some(ToLowerCase(Val(s))) ELSE None

\* a token count that is NaN: no vendor count equals it
NaN == Some(0 - 1)

Usage(p, c, t) == [promptTokens |-> p, completionTokens |-> c, totalTokens |-> t]

\* text: None is null; toolCalls and finishReason: None is undefined;
\* usage: None is null
GenerationResult(text, toolCalls, usage, finishReason, rawResponse) ==
    [text |-> text, toolCalls |-> toolCalls, usage |-> usage,
     finishReason |-> finishReason, rawResponse |-> rawResponse]

\* calls.length > 0 ? calls : undefined
NonEmptyOrUndefined(calls) == IF Len(calls) > 0 THEN Some(calls) ELSE None

\* `${name}-${Date.now()}`
NameTimeId(name, t) == name \o "-" \o ToString(t)

----------------------------------------------------------------------------
(* OpenAI wire format: chat.completions responses *)

WireToolCall(id, type, name, arguments) ==
    [id |-> id, type |-> type, name |-> name, arguments |-> arguments]
WireMessage(content, tool_calls) == [content |-> content, tool_calls |-> tool_calls]
CompletionChoice(message, finish_reason) ==
    [message |-> message, finish_reason |-> finish_reason]
Completion(choices, usage) == [choices |-> choices, usage |-> usage]

FlatTexts == {"4", " 4 ", "  "}
WireUsages == {None, Some(WireUsage(Some(5), Some(1), Some(6))),
               Some(WireUsage(Some(5), Some(1), None))}

Completions ==
    \* zero choices
    {Completion(<<>>, u) : u \in WireUsages}
    \* a text answer
    \cup {Completion(<<CompletionChoice(Some(WireMessage(c, None)), f)>>, u)
          : c \in {None} \cup {Some(t) : t \in FlatTexts},
            f \in {None} \cup {Some(r) : r \in FinishReasons},
            u \in WireUsages}
    \* a tool call, with and without an id, with complete and with cut arguments
    \cup {Completion(<<CompletionChoice(
              Some(WireMessage(None,
                  Some(<<WireToolCall(i, Some("function"), Some(n), a)>>))),
              Some("tool_calls"))>>, None)
          : i \in {None, Some("call_0")}, n \in ToolNames, a \in {"{\"a\":1}", "{\"a\":"}}
    \* a choice without a message
    \cup {Completion(<<CompletionChoice(None, Some("stop"))>>, None)}

\* { promptTokens: usage?.prompt_tokens, ... }
WireUsageOf(u) == IF IsSome(u) THEN CanonicalUsage(Val(u)) ELSE Usage(None, None, None)

\* OpenAIProvider.chat, from the completion to the result
OpenAIChat(c) ==
    LET choice == FirstChoice(c)
        message == IF IsSome(choice) THEN Val(choice).message ELSE None
        content == IF IsSome(message) THEN Val(message).content ELSE None
        tcs == IF IsSome(message) THEN Val(message).tool_calls ELSE None
        calls == IF IsSome(tcs)
                 THEN [i \in 1..Len(Val(tcs)) |->
                          ToolCallByValue(Val(tcs)[i].id, Val(tcs)[i].type,
                              Val(tcs)[i].name, Val(tcs)[i].arguments)]
                 ELSE <<>>
    IN Ok(GenerationResult(
              Some(IF IsSome(content) THEN Trim(Val(content)) ELSE ""),
              Some(calls),
              Some(WireUsageOf(c.usage)),
              IF IsSome(choice) THEN Val(choice).finish_reason ELSE None,
              c))

\* an error thrown inside the try block of chat, as its catch clause rethrows it
ChatFailed(p, cause) == Fail(LLMPlugRequestError(p, "chat request failed", Some(cause)))

\* chat of OpenRouter, Ollama and the generic provider, from the completion to the result
IndexKeyedChat(p, c, t) ==
    LET choice == FirstChoice(c)
        message == IF IsSome(choice) THEN Val(choice).message ELSE None
        content == IF IsSome(message) THEN Val(message).content ELSE None
        tcs == IF IsSome(message) THEN Val(message).tool_calls ELSE None
        IdOf(tc) == IF p = "OpenRouter" \/ TruthyStr(tc.id) THEN tc.id
                    ELSE Some(NameTimeId(Val(tc.name), t))
        TypeOf(tc) == IF p = "OpenRouter" THEN tc.type ELSE Some("function")
        calls == IF IsSome(tcs)
                 THEN [i \in 1..Len(Val(tcs)) |->
                          ToolCallByValue(IdOf(Val(tcs)[i]), TypeOf(Val(tcs)[i]),
                              Val(tcs)[i].name, Val(tcs)[i].arguments)]
                 ELSE <<>>
    IN IF ~IsSome(choice)
       THEN ChatFailed(p, LLMPlugRequestError(p, "API returned no choices", Some(c)))
       ELSE Ok(GenerationResult(
                   TrimOrNull(content),
                   NonEmptyOrUndefined(calls),
                   Some(WireUsageOf(c.usage)),
                   LowerCased(Val(choice).finish_reason),
                   c))

\* MistralProvider.chat, from the response to the result
MistralChat(c) ==
    LET choice == FirstChoice(c)
        message == Val(choice).message
        tcs == Val(message).tool_calls
        calls == IF IsSome(tcs)
                 THEN [i \in 1..Len(Val(tcs)) |->
                          ToolCallByValue(Val(tcs)[i].id, Some("function"),
                              Val(tcs)[i].name, Val(tcs)[i].arguments)]
                 ELSE <<>>
    IN IF ~IsSome(choice)
       THEN ChatFailed("Mistral",
                LLMPlugRequestError("Mistral", "API returned no choices", Some(c)))
       ELSE IF ~IsSome(message)
       \* choice.message.content on an undefined message
       THEN ChatFailed("Mistral", RuntimeError("TypeError"))
       ELSE Ok(GenerationResult(
                   TrimOrNull(Val(message).content),
                   NonEmptyOrUndefined(calls),
                   Some(WireUsageOf(c.usage)),
                   LowerCased(Val(choice).finish_reason),
                   c))

----------------------------------------------------------------------------
(* Anthropic: messages.create responses *)

ResponseBlock(type, text, id, name, input) ==
    [type |-> type, text |-> text, id |-> id, name |-> name, input |-> input]
TextBlock(t) == ResponseBlock("text", t, "", "", None)
ToolUseBlock(n, input) == ResponseBlock("tool_use", "", "toolu_0", n, input)
AnthropicResponse(content, stop_reason, usage) ==
    [content |-> content, stop_reason |-> stop_reason, usage |-> usage]

BlockTexts == {" Hel", "lo ", " "}
TextBlocks == {TextBlock(t) : t \in BlockTexts}
ToolUseBlocks == {ToolUseBlock(n, i) : n \in ToolNames, i \in {None, Some(ObjectA1)}}

\* up to two text blocks, around and between tool_use blocks
BlockLists ==
    {<<>>}
    \cup {<<b>> : b \in TextBlocks \cup ToolUseBlocks}
    \cup {<<a, b>> : a \in TextBlocks \cup ToolUseBlocks, b \in TextBlocks \cup ToolUseBlocks}
    \cup {<<a, u, b>> : a \in TextBlocks, u \in ToolUseBlocks, b \in TextBlocks}

AnthropicResponses ==
    {AnthropicResponse(c, s, u)
     : c \in BlockLists,
       s \in {None, Some("end_turn")},
       u \in {None, Some([input_tokens |-> Some(5), output_tokens |-> Some(1)])}}

\* (n || 0) for an optional number
OrZero(n) == IF IsSome(n) THEN Val(n) ELSE 0

\* AnthropicProvider.chat, from the response to the result
AnthropicChat(r) ==
    LET texts == SelectSeq(r.content, LAMBDA b : b.type = "text")
        uses == SelectSeq(r.content, LAMBDA b : b.type = "tool_use")
        calls == [i \in 1..Len(uses) |->
                     ToolCallByValue(Some(uses[i].id), Some("function"), Some(uses[i].name),
                         JsonStringifyOrEmpty(uses[i].input))]
        input == IF IsSome(r.usage) THEN Val(r.usage).input_tokens ELSE None
        output == IF IsSome(r.usage) THEN Val(r.usage).output_tokens ELSE None
    IN Ok(GenerationResult(
              TrimOrNull(Some(ConcatAll([i \in 1..Len(texts) |-> texts[i].text]))),
              NonEmptyOrUndefined(calls),
              Some(Usage(input, output, Some(OrZero(input) + OrZero(output)))),
              r.stop_reason,
              r))

----------------------------------------------------------------------------
(* Google: generateContent responses *)

GoogleParts ==
    {GooglePart(Some(t), None) : t \in BlockTexts}
    \cup {GooglePart(None, Some([name |-> n, args |-> a]))
          : n \in ToolNames, a \in {None, Some(ObjectA1)}}

GooglePartLists ==
    {<<>>}
    \cup {<<b>> : b \in GoogleParts}
    \cup {<<a, b>> : a \in GoogleParts, b \in GoogleParts}

GoogleResponses ==
    \* zero candidates
    {GoogleChunk(<<>>, u) : u \in {None, Some(UsageMetadata(Some(5), Some(1), Some(6)))}}
    \cup {GoogleChunk(<<GoogleCandidate(ps, f, n)>>, u)
          : ps \in {None} \cup {Some(l) : l \in GooglePartLists},
            f \in {None, Some("STOP")},
            n \in {None, Some(1)},
            u \in {None, Some(UsageMetadata(Some(5), Some(1), Some(6))),
                   Some(UsageMetadata(Some(5), None, None))}}

\* `gemini-fc-${Date.now()}-${index}`
GeminiId(t, index) == "gemini-fc-" \o ToString(t) \o "-" \o ToString(index)

\* GoogleProvider.chat, from the response to the result; msgs is the caller's
\* list, read by the safety warning when there is no text
GoogleChat(r, t, msgs) ==
    LET candidate == IF Len(r.candidates) > 0 THEN Some(r.candidates[1]) ELSE None
        parts == IF IsSome(candidate) THEN Val(candidate).parts ELSE None
        texts == IF IsSome(parts)
                 THEN SelectSeq(Val(parts), LAMBDA q : TruthyStr(q.text)) ELSE <<>>
        text == IF IsSome(parts)
                THEN TrimOrNull(Some(ConcatAll([i \in 1..Len(texts) |-> Val(texts[i].text)])))
                ELSE None
        fcParts == IF IsSome(parts)
                   THEN SelectSeq(Val(parts), LAMBDA q : IsSome(q.functionCall)) ELSE <<>>
        calls == [i \in 1..Len(fcParts) |->
                     ToolCallByValue(Some(GeminiId(t, i - 1)), Some("function"),
                         Some(Val(fcParts[i].functionCall).name),
                         JsonStringifyOrEmpty(Val(fcParts[i].functionCall).args))]
        count == IF IsSome(candidate) THEN Val(candidate).tokenCount ELSE None
    IN IF ~IsSome(text) /\ \E i \in 1..Len(msgs) : msgs[i].content.kind = "null"
       \* m.content.toString() on a null content
       THEN ChatFailed("Google", RuntimeError("TypeError"))
       ELSE Ok(GenerationResult(
                   text,
                   NonEmptyOrUndefined(calls),
                   Some(IF IsSome(r.usageMetadata)
                        THEN Usage(Val(r.usageMetadata).promptTokenCount,
                                   OrNum(Val(r.usageMetadata).candidatesTokenCount, count),
                                   Val(r.usageMetadata).totalTokenCount)
                        ELSE Usage(None, count, None)),
                   IF IsSome(candidate) THEN Val(candidate).finishReason ELSE None,
                   r))

----------------------------------------------------------------------------
(* Cohere: chat responses *)

CohereChatResponse(text, toolCalls, finishReason, tokens) ==
    [text |-> text, toolCalls |-> toolCalls, finishReason |-> finishReason,
     tokens |-> tokens]

CohereResponses ==
    {CohereChatResponse(x, None, f, k)
     : x \in {None} \cup {Some(s) : s \in FlatTexts},
       f \in {None, Some("COMPLETE"), Some("stop")},
       k \in {None, Some([inputTokens |-> 5, outputTokens |-> 1])}}
    \cup {CohereChatResponse(None, Some(<<CohereToolCall(n, a)>>), Some("TOOL_CALLS"), None)
          : n \in ToolNames, a \in {None, Some(ObjectA1)}}

\* CohereProvider.chat, from the response to the result
CohereChat(r, t) ==
    LET tcs == IF IsSome(r.toolCalls) THEN Val(r.toolCalls) ELSE <<>>
        calls == [i \in 1..Len(tcs) |->
                     ToolCallByValue(Some(NameTimeId(tcs[i].name, t)), Some("function"),
                         Some(tcs[i].name), JsonStringifyOrEmpty(tcs[i].parameters))]
    IN Ok(GenerationResult(
              TrimOrNull(r.text),
              NonEmptyOrUndefined(calls),
              Some(IF IsSome(r.tokens)
                   THEN Usage(Some(Val(r.tokens).inputTokens), Some(Val(r.tokens).outputTokens),
                              Some(Val(r.tokens).inputTokens + Val(r.tokens).outputTokens))
                   \* undefined + undefined
                   ELSE Usage(None, None, NaN)),
              IF IsSome(r.finishReason) THEN Some(ToUpperCase(Val(r.finishReason))) ELSE None,
              r))

----------------------------------------------------------------------------
(* Hugging Face: conversational responses *)

HFResponse(generated_text, generated_responses) ==
    [generated_text |-> generated_text, generated_responses |-> generated_responses]

HFResponses ==
    {HFResponse(Some(s), None) : s \in FlatTexts \cup {""}}
    \cup {HFResponse(None, Some(l)) : l \in {<<>>, <<" 4 ">>}}
    \cup {HFResponse(None, None)}

\* HuggingFaceProvider.chat, from the response to the result; sent is the
\* generated_responses of the payload
HuggingFaceChat(r, sent) ==
    LET text == IF TruthyStr(r.generated_text) THEN Trim(Val(r.generated_text))
                ELSE IF IsSome(r.generated_responses)
                        /\ Len(Val(r.generated_responses)) > Len(sent)
                THEN Trim(Val(r.generated_responses)[Len(Val(r.generated_responses))])
                ELSE ""
    IN Ok(GenerationResult(Some(text), None, None, None, r))

----------------------------------------------------------------------------
(* Non-streaming calls: chat from the transport call to its result *)

\* the transport answered with resp, and chat mapped it with outcome r
Answer(resp, r) ==
    /\ pc = "await"
    /\ received' = <<resp>>
    /\ IF r.ok
       THEN result' = Some(r.value) /\ pc' = "done" /\ UNCHANGED error
       ELSE error' = r.error /\ pc' = "failed" /\ UNCHANGED result
    /\ UNCHANGED <<callVars, messages, toolState, heap, yielded, consumerVars,
                   request, transportCalls>>

OpenAIChatReturn ==
    /\ provider = "OpenAI"
    /\ pc = "await"
    /\ \E c \in Completions : Answer(c, OpenAIChat(c))

IndexKeyedChatReturn ==
    /\ provider \in {"OpenRouter", "Ollama", "Generic"}
    /\ pc = "await"
    /\ \E c \in Completions : Answer(c, IndexKeyedChat(provider, c, now))

MistralChatReturn ==
    /\ provider = "Mistral"
    /\ pc = "await"
    /\ \E c \in Completions : Answer(c, MistralChat(c))

AnthropicChatReturn ==
    /\ provider = "Anthropic"
    /\ pc = "await"
    /\ \E r \in AnthropicResponses : Answer(r, AnthropicChat(r))

GoogleChatReturn ==
    /\ provider = "Google"
    /\ pc = "await"
    /\ \E r \in GoogleResponses : Answer(r, GoogleChat(r, now, messages))

CohereChatReturn ==
    /\ provider = "Cohere"
    /\ method = "chat"
    /\ pc = "await"
    /\ \E r \in CohereResponses : Answer(r, CohereChat(r, now))

HuggingFaceChatReturn ==
    /\ provider = "HuggingFace"
    /\ method = "chat"
    /\ pc = "await"
    /\ \E r \in HFResponses :
          Answer(r, HuggingFaceChat(r, Val(request).inputs.generated_responses))

\* the transport rejects the chat call: the catch clause wraps the error
ChatTransportRaise ==
    /\ pc = "await"
    /\ \E cause \in TransportErrors : error' = ChatFailed(provider, cause).error
    /\ pc' = "failed"
    /\ UNCHANGED <<callVars, messages, streamVars, consumerVars, request, transportCalls,
                   result>>

\* chat with one user message and no options, on every provider
InitChat ==
    /\ InitCommon
    /\ provider \in RequestProviders
    /\ config \in Configs(provider)
    /\ method = "chat"
    /\ genInput = NoInput
    /\ messages = <<UserMsg>>
    /\ options = NoOptions

NextChat ==
    \/ Call
    \/ OpenAIChatReturn
    \/ IndexKeyedChatReturn
    \/ MistralChatReturn
    \/ AnthropicChatReturn
    \/ GoogleChatReturn
    \/ CohereChatReturn
    \/ HuggingFaceChatReturn
    \/ ChatTransportRaise

SpecChat == InitChat /\ [][NextChat]_vars

----------------------------------------------------------------------------
(* generate: from its input to the transport call and on to its result *)

\* the options MistralProvider.generate hands to chat
MistralGenerateOptions(opts) ==
    [NoOptions EXCEPT !.model = opts.model,
                      !.temperature = opts.temperature,
                      !.maxTokens = opts.maxTokens,
                      !.extraParams = ExtraParams(opts.extraParams.topP,
                                                  opts.extraParams.randomSeed, None)]

\* `${msg.role}: ${contentText}` of CohereProvider.generate; a null content
\* renders as "null"
CoherePromptLine(msg) ==
    msg.role \o ": " \o
    (IF msg.content.kind = "parts" THEN JoinText(msg.content.parts, "\n")
     ELSE IF msg.content.kind = "string" THEN msg.content.text
     ELSE "null")

\* this.defaultGenerateModel of CohereProvider
DefaultGenerateModel == "command-light"

\* CohereProvider.generate up to client.generate
CohereGenerateRequest(in, opts) ==
    LET promptText == IF in.kind = "string" THEN in.text
                      ELSE JoinLines([i \in 1..Len(in.list) |-> CoherePromptLine(in.list[i])],
                                     "\n\n")
    IN IF promptText = ""
       THEN Fail(LLMPlugRequestError("Cohere", "prompt text cannot be empty", None))
       ELSE Ok([prompt |-> promptText,
                model |-> IF TruthyStr(opts.model) THEN opts.model
                          ELSE Some(DefaultGenerateModel),
                maxTokens |-> opts.maxTokens,
                temperature |-> opts.temperature,
                k |-> None,
                p |-> None,
                stopSequences |-> opts.stopSequences,
                returnLikelihoods |-> None])

\* `${msg.role}: ${...}` of HuggingFaceProvider.generate
HFPromptLine(msg) ==
    msg.role \o ": " \o
    (IF msg.content.kind = "string" THEN msg.content.text
     ELSE JoinLines([i \in 1..Len(msg.content.parts) |-> msg.content.parts[i].text], "\n"))

\* HuggingFaceProvider.generate up to _makeApiCall(payload, modelId, 'text-generation')
HuggingFaceGenerateRequest(in, opts, cfg) ==
    IF in.kind = "array" /\ \E i \in 1..Len(in.list) : in.list[i].content.kind = "null"
    \* msg.content.map on a null content
    THEN Fail(RuntimeError("TypeError"))
    ELSE Ok([task |-> "text-generation",
             model |-> ModelOf(opts, cfg),
             inputs |-> IF in.kind = "string" THEN in.text
                        ELSE JoinLines([i \in 1..Len(in.list) |-> HFPromptLine(in.list[i])],
                                       "\n") \o "\nassistant:",
             parameters |-> [max_new_tokens |-> opts.maxTokens,
                             temperature |-> opts.temperature,
                             return_full_text |-> FALSE,
                             stop_sequences |-> opts.stopSequences,
                             extra |-> opts.extraParams],
             options |-> [wait_for_model |-> TRUE, use_cache |-> TRUE]])

\* generate of provider p up to the transport call
GenerateRequest(p, in, opts, cfg) ==
    CASE p = "Cohere" -> CohereGenerateRequest(in, opts)
      [] p = "HuggingFace" -> HuggingFaceGenerateRequest(in, opts, cfg)
      [] OTHER ->
             BuildRequest(p, "chat", PrepareInputAsMessages(in),
                          IF p = "Mistral" THEN MistralGenerateOptions(opts) ELSE opts, cfg)

\* the providers whose generate has an endpoint of its own
OwnGenerate == {"Cohere", "HuggingFace"}

CohereGeneration(text, finishReason) == [text |-> text, finishReason |-> finishReason]
CohereGenerateResponses ==
    {[generations |-> <<>>]}
    \cup {[generations |-> <<CohereGeneration(t, f)>>]
          : t \in FlatTexts, f \in {None, Some("COMPLETE")}}

\* CohereProvider.generate, from the response to the result
CohereGenerate(r) ==
    IF Len(r.generations) = 0
    THEN ChatFailed("Cohere",
             LLMPlugRequestError("Cohere", "API returned no generations", Some(r)))
    ELSE Ok(GenerationResult(Some(Trim(r.generations[1].text)), None, None,
                             LowerCased(r.generations[1].finishReason), r))

\* a text-generation answer: generated_text of the first element or of the object
HFGenerateResponses == {[generated_text |-> g] : g \in {None} \cup {Some(t) : t \in FlatTexts}}

\* HuggingFaceProvider.generate, from the response to the result
HuggingFaceGenerate(r) ==
    Ok(GenerationResult(
           Some(IF TruthyStr(r.generated_text) THEN Trim(Val(r.generated_text)) ELSE ""),
           None, None, None, r))

\* generate from its first statement to the transport call
Generate ==
    /\ pc = "start"
    /\ method = "generate"
    /\ messages' = IF provider \in OwnGenerate THEN messages
                   ELSE MessagesAfter(provider, PrepareInputAsMessages(genInput), config)
    /\ Submit(GenerateRequest(provider, genInput, options, config))
    /\ UNCHANGED <<callVars, streamVars, consumerVars, result>>

CohereGenerateReturn ==
    /\ provider = "Cohere"
    /\ method = "generate"
    /\ pc = "await"
    /\ \E r \in CohereGenerateResponses : Answer(r, CohereGenerate(r))

HuggingFaceGenerateReturn ==
    /\ provider = "HuggingFace"
    /\ method = "generate"
    /\ pc = "await"
    /\ \E r \in HFGenerateResponses : Answer(r, HuggingFaceGenerate(r))

\* the inputs of generate: message lists of up to two messages, and a prompt
GenerateLists == {l \in MsgLists : Len(l) <= 2}
GenerateOptionSets == {o \in OptionSets : SetCount(o) <= 1}

\* generate on every provider: a prompt with at most one option set, or a
\* message list with no options
InitGenerate ==
    /\ InitCommon
    /\ provider \in RequestProviders
    /\ config \in Configs(provider)
    /\ method = "generate"
    /\ messages = <<>>
    /\ \/ genInput = PromptInput(UserMsg.content.text) /\ options \in GenerateOptionSets
       \/ genInput \in {ListInput(l) : l \in GenerateLists} /\ options = NoOptions

NextGenerate ==
    \/ Generate
    \/ OpenAIChatReturn
    \/ IndexKeyedChatReturn
    \/ MistralChatReturn
    \/ AnthropicChatReturn
    \/ GoogleChatReturn
    \/ CohereGenerateReturn
    \/ HuggingFaceGenerateReturn
    \/ ChatTransportRaise

SpecGenerate == InitGenerate /\ [][NextGenerate]_vars

----------------------------------------------------------------------------
(* generateStream, and the four methods side by side *)

\* CohereProvider.generateStream up to client.generateStream
CohereGenerateStreamRequest(in, opts) ==
    LET r == CohereGenerateRequest(in, opts)
    IN IF r.ok
       THEN Ok([f \in DOMAIN r.value \ {"returnLikelihoods"} |-> r.value[f]])
       ELSE r

\* generateStream of provider p up to the transport call
GenerateStreamRequest(p, in, opts, cfg) ==
    CASE p = "Cohere" -> CohereGenerateStreamRequest(in, opts)
      [] p = "HuggingFace" ->
             Fail(LLMPlugError("HuggingFace", "generateStream not implemented"))
      [] OTHER ->
             BuildRequest(p, "chatStream", PrepareInputAsMessages(in),
                          IF p = "Mistral" THEN MistralGenerateOptions(opts) ELSE opts, cfg)

\* generateStream from its first statement to the transport call
GenerateStream ==
    /\ pc = "start"
    /\ method = "generateStream"
    /\ messages' = IF provider \in OwnGenerate THEN messages
                   ELSE MessagesAfter(provider, PrepareInputAsMessages(genInput), config)
    /\ Submit(GenerateStreamRequest(provider, genInput, options, config))
    /\ UNCHANGED <<callVars, streamVars, consumerVars, result>>

\* CohereProvider.generateStream, body of its for-await loop
CohereGenerateStep(ev, st, h) ==
    LET c0 == EmptyChunk(ev)
    IN [state |-> st, heap |-> h,
        out |-> Some(IF ev.eventType = "text-generation" /\ TruthyStr(ev.text)
                     THEN [c0 EXCEPT !.text = ev.text]
                     ELSE IF ev.eventType = "stream-end"
                     THEN [c0 EXCEPT !.finishReason = LowerCased(ev.finishReason)]
                     ELSE c0)]

CohereGenerateStreamEvent ==
    /\ CanPull /\ provider = "Cohere" /\ method = "generateStream"
    /\ \E ev \in CohereEvents : Deliver(ev, CohereGenerateStep(ev, toolState, heap))

Methods == {"chat", "chatStream", "generate", "generateStream"}

\* each method on each provider, with one user message or one prompt and no options
InitCalls ==
    /\ InitCommon
    /\ provider \in RequestProviders
    /\ config \in Configs(provider)
    /\ method \in Methods
    /\ options = NoOptions
    /\ IF method \in {"chat", "chatStream"}
       THEN messages = <<UserMsg>> /\ genInput = NoInput
       ELSE messages = <<>> /\ genInput = PromptInput(UserMsg.content.text)

NextCalls ==
    \/ Call
    \/ Generate
    \/ GenerateStream
    \/ OpenAIChatReturn
    \/ IndexKeyedChatReturn
    \/ MistralChatReturn
    \/ AnthropicChatReturn
    \/ GoogleChatReturn
    \/ CohereChatReturn
    \/ HuggingFaceChatReturn
    \/ CohereGenerateReturn
    \/ HuggingFaceGenerateReturn
    \/ ChatTransportRaise
    \/ OpenAIStreamEvent
    \/ IndexKeyedStreamEvent
    \/ MistralStreamEvent
    \/ AnthropicStreamEvent
    \/ GoogleStreamEvent
    \/ CohereStreamEvent
    \/ CohereGenerateStreamEvent
    \/ HandleStreamChunk
    \/ TransportClose
    \/ TransportRaise

SpecCalls == InitCalls /\ [][NextCalls]_vars

----------------------------------------------------------------------------
(* From getProvider to the first call on the instance *)

\* LLMPlug.getProvider up to `new ProviderClass(config)`
GetProvider ==
    /\ pc = "getProvider"
    /\ LET found == Lookup(LowerName(setup.providerName))
       IN CASE found.kind = "class" ->
                   /\ provider' = found.class
                   /\ pc' = "construct"
                   /\ UNCHANGED error
            \* PROVIDERS.constructor is Object: new Object(config) returns config
            [] found.kind = "inherited" ->
                   /\ provider' = found.class
                   /\ pc' = "done"
                   /\ UNCHANGED error
            \* Object.prototype is not a constructor
            [] found.kind = "prototype" ->
                   /\ error' = Some(RuntimeError("TypeError"))
                   /\ pc' = "failed"
                   /\ UNCHANGED provider
            [] OTHER ->
                   /\ error' = Some(LLMPlugError("", UnsupportedProvider(setup.providerName)))
                   /\ pc' = "failed"
                   /\ UNCHANGED provider
    /\ UNCHANGED <<setup, config, method, genInput, options, now, messages, request,
                   transportCalls, streamVars, consumerVars, result, second>>

\* new ProviderClass(config) inside getProvider
Construct ==
    /\ pc = "construct"
    /\ LET built == Constructor(provider, setup)
       IN IF built.ok
          THEN config' = built.value /\ pc' = "start" /\ UNCHANGED error
          ELSE error' = built.error /\ pc' = "failed" /\ UNCHANGED config
    /\ UNCHANGED <<setup, provider, method, genInput, options, now, messages, request,
                   transportCalls, streamVars, consumerVars, result, second>>

\* the provider of the state before getProvider has returned one
NoProvider == "none"

\* getProvider with any name, credential and model, then chat or chatStream
\* with one user message, with or without a model of its own
InitConstruct ==
    /\ pc = "getProvider"
    /\ setup \in Setups
    /\ provider = NoProvider
    /\ config = [defaultModel |-> None]
    /\ method \in {"chat", "chatStream"}
    /\ genInput = NoInput
    /\ messages = <<UserMsg>>
    /\ options \in {NoOptions, [NoOptions EXCEPT !.model = Some("custom-model")]}
    /\ request = None
    /\ second = NotCalled
    /\ transportCalls = 0
    /\ received = <<>>
    /\ toolState = <<>>
    /\ heap = <<>>
    /\ yielded = <<>>
    /\ error = None
    /\ result = None
    /\ now \in Timestamps
    /\ fullText = ""
    /\ hsToolCalls = <<>>
    /\ finalUsage = None
    /\ finalFinishReason = None

NextConstruct ==
    \/ GetProvider
    \/ Construct
    \/ Call

SpecConstruct == InitConstruct /\ [][NextConstruct]_vars

----------------------------------------------------------------------------
(* Two chatStream calls on one provider instance *)

\* the upstream events of provider p's stream
EventsOf(p) ==
    CASE p = "Anthropic" -> AnthropicEvents
      [] p = "Google" -> GoogleEvents
      [] p = "Cohere" -> CohereEvents
      [] OTHER -> OpenAIWireEvents

\* the body of the for-await loop of provider p's chatStream on event ev
StepOf(p, ev, st, h, t) ==
    CASE p = "OpenAI" -> OpenAIStep(ev, st, h)
      [] p \in {"OpenRouter", "Ollama", "Generic"} -> IndexKeyedStep(p, ev, st, h)
      [] p = "Mistral" -> MistralStep(ev, st, h)
      [] p = "Anthropic" -> AnthropicStep(ev, st, h)
      [] p = "Google" -> GoogleStep(ev, st, h, t)
      [] OTHER -> CohereStep(ev, st, h, t)

\* an accumulator kept on the provider instance: every call works on the one
\* of the call that came first
InstanceAccumulator(own, first) == first

\* the accumulator a for-await loop works on: `let currentToolCallsState = {}`,
\* `const streamingToolCallArgs = {}`, `let accumulatedToolCallParams = {}` are
\* locals of the generator invocation
LoopAccumulator(own, first) == own

\* events each of the two interleaved calls may receive
MaxInterleaved == 2

\* the second chatStream call is made on the instance, at any point of the first
SecondCall ==
    /\ second.pc = "start"
    /\ pc \in {"pull", "consume", "done", "failed"}
    /\ second' = [second EXCEPT !.pc = "pull"]
    /\ transportCalls' = transportCalls + 1
    /\ UNCHANGED <<setup, provider, config, method, genInput, options, now, messages, pc,
                   request, streamVars, consumerVars, error, result>>

\* the for-await loop of the second call runs its body on one upstream event
SecondStreamEvent ==
    /\ second.pc = "pull"
    /\ Len(second.received) < MaxInterleaved
    /\ \E ev \in EventsOf(provider) :
          LET r == StepOf(provider, ev, LoopAccumulator(second.toolState, toolState),
                          LoopAccumulator(second.heap, heap), now)
          IN second' = [second EXCEPT !.received = Append(@, ev),
                                      !.toolState = r.state,
                                      !.heap = r.heap,
                                      !.yielded = IF IsSome(r.out) THEN Append(@, Val(r.out))
                                                  ELSE @]
    /\ UNCHANGED <<setup, provider, config, method, genInput, options, now, messages, pc,
                   request, transportCalls, streamVars, consumerVars, error, result>>

\* the upstream sequence of the second call ends
SecondClose ==
    /\ second.pc = "pull"
    /\ second' = [second EXCEPT !.pc = "done"]
    /\ UNCHANGED <<setup, provider, config, method, genInput, options, now, messages, pc,
                   request, transportCalls, streamVars, consumerVars, error, result>>

\* the for-await loop of the first call runs its body on one upstream event
FirstStreamEvent ==
    /\ Len(received) < MaxInterleaved
    /\ \/ OpenAIStreamEvent
       \/ IndexKeyedStreamEvent
       \/ MistralStreamEvent
       \/ AnthropicStreamEvent
       \/ GoogleStreamEvent
       \/ CohereStreamEvent

NextStreams ==
    \/ Call
    \/ FirstStreamEvent
    \/ HandleStreamChunk
    \/ TransportClose
    \/ TransportRaise
    \/ SecondCall
    \/ SecondStreamEvent
    \/ SecondClose

SpecStreams == Init /\ [][NextStreams]_vars

----------------------------------------------------------------------------
(* A consumer that gives the stream up *)

\* the consumer leaves its for-await loop (break, return, throw) in the loop
\* body: return() reaches the generator suspended at its yield, the generator's
\* own for-await closes the upstream iterator and the generator completes; a
\* return completion does not enter the catch clause
ReturnAtYield ==
    /\ pc = "consume"
    /\ pc' = "returned"
    /\ UNCHANGED <<callVars, messages, streamVars, consumerVars, request, transportCalls,
                   error, result>>

\* the consumer calls return() while its next() is pending: the generator is
\* running, awaiting the upstream, and the request waits in the generator's queue
ReturnWhilePending ==
    /\ pc = "pull"
    /\ pc' = "returning"
    /\ UNCHANGED <<callVars, messages, streamVars, consumerVars, request, transportCalls,
                   error, result>>

\* the loop body on the next upstream event, with a return() queued: the
\* generator runs on to its next yield, where the chunk settles the pending
\* next() and the queued return() closes the upstream
ReturningStreamEvent ==
    /\ pc = "returning"
    /\ Len(received) < MaxEvents
    /\ \E ev \in EventsOf(provider) :
          LET r == StepOf(provider, ev, toolState, heap, now)
          IN /\ received' = Append(received, ev)
             /\ toolState' = r.state
             /\ heap' = r.heap
             /\ IF IsSome(r.out)
                THEN yielded' = Append(yielded, Val(r.out)) /\ pc' = "returned"
                ELSE UNCHANGED yielded /\ pc' = "returning"
    /\ UNCHANGED <<callVars, messages, consumerVars, request, transportCalls, error, result>>

\* the upstream ends with a return() queued: the generator completes
ReturningClose ==
    /\ pc = "returning"
    /\ pc' = "returned"
    /\ UNCHANGED <<callVars, messages, streamVars, consumerVars, request, transportCalls,
                   error, result>>

\* the upstream raises with a return() queued: the catch clause throws its
\* LLMPlugRequestError into the pending next()
ReturningRaise ==
    /\ pc = "returning"
    /\ \E cause \in TransportErrors :
          error' = Some(LLMPlugRequestError(provider, "chat stream failed", Some(cause)))
    /\ pc' = "failed"
    /\ UNCHANGED <<callVars, messages, streamVars, consumerVars, request, transportCalls,
                   result>>

NextAbandon ==
    \/ Next
    \/ ReturnAtYield
    \/ ReturnWhilePending
    \/ ReturningStreamEvent
    \/ ReturningClose
    \/ ReturningRaise

SpecAbandon == Init /\ [][NextAbandon]_vars

----------------------------------------------------------------------------
(* The same message list given to two calls *)

\* the second call hands its request to the transport, or fails before it
SubmitSecond(r) ==
    IF r.ok
    THEN /\ second' = [second EXCEPT !.pc = "called", !.request = Some(r.value)]
         /\ transportCalls' = transportCalls + 1
    ELSE /\ second' = [second EXCEPT !.pc = "failed"]
         /\ UNCHANGED transportCalls

\* a second chat or chatStream call with the list the caller gave to the first:
\* _prepareMessages reads the list as the first call left it
CallAgain ==
    /\ pc \in {"await", "pull"}
    /\ second.pc = "start"
    /\ SubmitSecond(BuildRequest(provider, method, messages, options, config))
    /\ messages' = MessagesAfter(provider, messages, config)
    /\ UNCHANGED <<setup, provider, config, method, genInput, options, now, pc, request,
                   streamVars, consumerVars, error, result>>

NextTwice == Call \/ CallAgain

SpecTwice == InitRequest /\ [][NextTwice]_vars

----------------------------------------------------------------------------
(* What the upstream sequence carried, read off the received events *)

IsTextDelta(ev) ==
    ev.type = "content_block_delta" /\ IsSome(ev.delta)
    /\ Val(ev.delta).type = Some("text_delta")

\* the text fragments of one upstream event, in order
TextPartsOf(p, ev) ==
    CASE p \in OpenAIWire ->
            IF IsSome(FirstChoice(ev)) /\ IsSome(Val(FirstChoice(ev)).content)
            THEN <<Val(Val(FirstChoice(ev)).content)>> ELSE <<>>
      [] p = "Anthropic" -> IF IsTextDelta(ev) THEN <<Val(ev.delta).text>> ELSE <<>>
      [] p = "Google" ->
            IF Len(ev.candidates) > 0 /\ IsSome(ev.candidates[1].parts)
            THEN LET ps == SelectSeq(Val(ev.candidates[1].parts), LAMBDA q : IsSome(q.text))
                 IN [i \in 1..Len(ps) |-> Val(ps[i].text)]
            ELSE <<>>
      [] OTHER -> IF ev.eventType = "text-generation" /\ IsSome(ev.text)
                  THEN <<Val(ev.text)>> ELSE <<>>

UpstreamText ==
    ConcatAll(FlattenSeq([i \in 1..Len(received) |-> TextPartsOf(provider, received[i])]))

YieldedText == ConcatAll([i \in 1..Len(yielded) |-> OrStr(yielded[i].text, "")])

\* C1: when a chatStream has ended, the text fields of the yielded chunks,
\* concatenated in yield order, are the upstream text fragments concatenated in
\* arrival order, also when one event carries several text parts.
C1_TextPreserved == pc = "done" => YieldedText = UpstreamText

\* the tool-call deltas of one event of the OpenAI wire format
TcDeltasOf(ev) ==
    IF IsSome(FirstChoice(ev)) /\ IsSome(Val(FirstChoice(ev)).tool_calls)
    THEN Val(Val(FirstChoice(ev)).tool_calls) ELSE <<>>

IsFinishEvent(ev) ==
    IsSome(FirstChoice(ev)) /\ IsSome(Val(FirstChoice(ev)).finish_reason)

UpstreamDeltas == FlattenSeq([i \in 1..Len(received) |-> TcDeltasOf(received[i])])

\* one tool call streamed in fragments under one key: the id comes with the
\* first fragment, every later fragment carries the index only, and no
\* terminal event stands before the last fragment
FragmentedCall ==
    /\ provider \in OpenAIWire
    /\ Len(UpstreamDeltas) >= 2
    /\ IsSome(UpstreamDeltas[1].id)
    /\ \A i \in 2..Len(UpstreamDeltas) : ~IsSome(UpstreamDeltas[i].id)
    /\ \A i \in 1..Len(received) :
          IsFinishEvent(received[i]) =>
              \A j \in i..Len(received) : TcDeltasOf(received[j]) = <<>>

UpstreamArguments ==
    ConcatAll([i \in 1..Len(UpstreamDeltas) |-> OrStr(UpstreamDeltas[i].arguments, "")])

\* the tool-call snapshots yielded so far, in yield order
YieldedSnapshots ==
    FlattenSeq([i \in 1..Len(yielded) |->
        IF IsSome(yielded[i].toolCalls) THEN Val(yielded[i].toolCalls) ELSE <<>>])

\* C2: when a tool call's arguments arrive as fragments under one correlation
\* key, the last snapshot chatStream yields for it has the fragments
\* concatenated in arrival order as its arguments.
C2_LastSnapshotComplete ==
    (pc = "done" /\ FragmentedCall) =>
        /\ Len(YieldedSnapshots) > 0
        /\ FunctionOf(YieldedSnapshots[Len(YieldedSnapshots)], heap).arguments
               = UpstreamArguments

\* the token counts one upstream event reports
PromptCountOf(p, ev) ==
    CASE p \in OpenAIWire ->
            IF IsSome(ev.usage) THEN Val(ev.usage).prompt_tokens ELSE None
      [] p = "Anthropic" ->
            IF IsSome(ev.message_usage) THEN Some(Val(ev.message_usage).input_tokens) ELSE None
      [] p = "Google" ->
            IF IsSome(ev.usageMetadata) THEN Val(ev.usageMetadata).promptTokenCount ELSE None
      [] OTHER ->
            IF IsSome(ev.response) /\ IsSome(Val(ev.response).tokens)
            THEN Some(Val(Val(ev.response).tokens).inputTokens) ELSE None

CompletionCountOf(p, ev) ==
    CASE p \in OpenAIWire ->
            IF IsSome(ev.usage) THEN Val(ev.usage).completion_tokens ELSE None
      [] p = "Anthropic" ->
            IF IsSome(ev.usage) THEN Some(Val(ev.usage).output_tokens) ELSE None
      [] p = "Google" ->
            IF IsSome(ev.usageMetadata) THEN Val(ev.usageMetadata).candidatesTokenCount
            ELSE None
      [] OTHER ->
            IF IsSome(ev.response) /\ IsSome(Val(ev.response).tokens)
            THEN Some(Val(Val(ev.response).tokens).outputTokens) ELSE None

\* the prompt count came alone in event i, the completion count alone in the
\* last event, and the consumer has handled the chunk of the last event
SplitUsage(i) ==
    /\ pc = "pull"
    /\ i < Len(received)
    /\ IsSome(PromptCountOf(provider, received[i]))
    /\ ~IsSome(CompletionCountOf(provider, received[i]))
    /\ IsSome(CompletionCountOf(provider, received[Len(received)]))
    /\ ~IsSome(PromptCountOf(provider, received[Len(received)]))
    /\ Len(yielded) > 0
    /\ yielded[Len(yielded)].rawChunk = received[Len(received)]

HasCount(u, f, n) == IsSome(u) /\ f \in DOMAIN Val(u) /\ Val(u)[f] = n

\* C3: when the prompt-token count arrives in an early event and the
\* completion-token count in a later one, the usage reported after the later
\* event holds both counts in one record.
C3_UsageMerged ==
    \A i \in 1..Len(received) :
        SplitUsage(i) =>
            /\ HasCount(finalUsage, "promptTokens", PromptCountOf(provider, received[i]))
            /\ HasCount(finalUsage, "completionTokens",
                        CompletionCountOf(provider, received[Len(received)]))

\* an event that ends the response: a finish reason, message_stop or stream-end
IsTerminal(p, ev) ==
    CASE p \in OpenAIWire -> IsFinishEvent(ev)
      [] p = "Anthropic" ->
            \/ ev.type = "message_stop"
            \/ /\ ev.type = "message_delta" /\ IsSome(ev.delta)
               /\ IsSome(Val(ev.delta).stop_reason)
      [] p = "Google" ->
            Len(ev.candidates) > 0 /\ IsSome(ev.candidates[1].finishReason)
      [] OTHER -> ev.eventType = "stream-end"

NoTerminal == \A i \in 1..Len(received) : ~IsTerminal(provider, received[i])

\* the tool calls the provider holds in its accumulator: key and arguments
AccumulatedCalls ==
    CASE provider = "Anthropic" ->
            [i \in 1..Len(toolState) |->
                [key |-> Some(toolState[i].val.id), arguments |-> toolState[i].val.arguments]]
      [] provider = "Cohere" ->
            [i \in 1..Len(toolState) |->
                [key |-> Some(toolState[i].key), arguments |-> toolState[i].val]]
      [] provider \in {"OpenRouter", "Ollama", "Generic", "Mistral"} ->
            [i \in 1..Len(toolState) |->
                [key |-> toolState[i].val.id,
                 arguments |-> heap[toolState[i].val.ref].arguments]]
      [] OTHER -> <<>>

\* the key a yielded snapshot is correlated by: the tool name for Cohere, whose
\* ids are made up per chunk, the id elsewhere
SnapshotKey(tc) == IF provider = "Cohere" THEN FunctionOf(tc, heap).name ELSE tc.id

Delivered(a) ==
    \E k \in 1..Len(YieldedSnapshots) :
        /\ SnapshotKey(YieldedSnapshots[k]) = a.key
        /\ FunctionOf(YieldedSnapshots[k], heap).arguments = a.arguments

\* C4: when the upstream sequence ends without a terminal event, no chunk
\* carries a finishReason and every tool call accumulated so far has been
\* yielded with all the argument fragments received for it.
C4_EndWithoutTerminal ==
    (pc = "done" /\ NoTerminal) =>
        /\ \A i \in 1..Len(yielded) : ~IsSome(yielded[i].finishReason)
        /\ \A i \in 1..Len(AccumulatedCalls) : Delivered(AccumulatedCalls[i])

\* whether the loop body of provider p yields a chunk for event ev: the
\* index-keyed providers skip an event that has no choices
YieldsChunk(p, ev) == ~(p \in {"OpenRouter", "Ollama", "Generic"} /\ ev.choices = <<>>)

\* the transport raised while the stream was being read
StreamFailed == pc = "failed" /\ transportCalls = 1

ErrorWrapsCause ==
    /\ IsSome(error)
    /\ Val(error).name = "LLMPlugRequestError"
    /\ Val(error).provider = provider
    /\ IsSome(Val(error).originalError)
    /\ Val(Val(error).originalError) \in TransportErrors

\* the caller holds one chunk per delivered event, in arrival order, and has
\* handled every one of them
ChunksInOrder ==
    /\ [i \in 1..Len(yielded) |-> yielded[i].rawChunk]
           = SelectSeq(received, LAMBDA ev : YieldsChunk(provider, ev))
    /\ fullText = YieldedText

\* C5: when the transport raises after delivering events e1..ek, the caller
\* has received the chunks of e1..ek in order, then one request error whose
\* originalError is the transport's error, and from then on neither a chunk
\* nor another error.
C5_ChunksThenOneError ==
    /\ [](StreamFailed => (ErrorWrapsCause /\ ChunksInOrder))
    /\ [][StreamFailed => (yielded' = yielded /\ error' = error /\ pc' = pc)]_vars

\* the transport raised after two events whose chunks the caller had handled
C5_Witness ==
    /\ StreamFailed
    /\ Len(received) = 2
    /\ Len(yielded) = 2
    /\ IsSome(error)

\* the argument fragments of one upstream event, in the shapes the
\* accumulators read them
ArgPartsOf(p, ev) ==
    CASE p \in OpenAIWire ->
            [i \in 1..Len(TcDeltasOf(ev)) |-> OrStr(TcDeltasOf(ev)[i].arguments, "")]
      [] p = "Anthropic" ->
            IF ev.type = "content_block_start" /\ IsSome(ev.delta)
               /\ Val(ev.delta).type = Some("input_json_delta")
            THEN <<Val(ev.delta).partial_json>> ELSE <<>>
      [] p = "Cohere" ->
            IF ev.eventType = "tool-calls-chunk" /\ IsSome(ev.text)
            THEN <<Val(ev.text)>> ELSE <<>>
      [] OTHER -> <<>>

UpstreamFragments ==
    FlattenSeq([i \in 1..Len(received) |-> ArgPartsOf(provider, received[i])])

\* the event that closes the stream: for Anthropic message_stop, where the
\* accumulated calls are finalized
IsStreamEnd(p, ev) == IF p = "Anthropic" THEN ev.type = "message_stop" ELSE IsTerminal(p, ev)

\* one tool call received its arguments in fragments under one key
FragmentsUnderOneKey ==
    CASE provider \in OpenAIWire -> FragmentedCall
      [] provider = "Anthropic" -> Len(UpstreamFragments) >= 1
      [] provider = "Cohere" ->
            /\ Len(UpstreamFragments) >= 1
            /\ Len(received) >= 1
            /\ received[1].eventType = "tool-calls-generation"
      [] OTHER -> FALSE

\* the chunk just yielded is the chunk of the first and only closing event
AtTerminalChunk ==
    /\ pc = "consume"
    /\ Len(received) >= 1
    /\ IsStreamEnd(provider, received[Len(received)])
    /\ \A i \in 1..(Len(received) - 1) : ~IsTerminal(provider, received[i])
    /\ yielded[Len(yielded)].rawChunk = received[Len(received)]

\* C6: the chunk yielded for the terminal event carries, for the key that
\* received argument fragments, a snapshot whose arguments are all the
\* fragments concatenated.
C6_TerminalSnapshotComplete ==
    (AtTerminalChunk /\ FragmentsUnderOneKey) =>
        /\ IsSome(yielded[Len(yielded)].toolCalls)
        /\ \E k \in 1..Len(Val(yielded[Len(yielded)].toolCalls)) :
              FunctionOf(Val(yielded[Len(yielded)].toolCalls)[k], heap).arguments
                  = ConcatAll(UpstreamFragments)

----------------------------------------------------------------------------
(* What a call was given and what its request carries *)

\* a tool-role message whose tool_call_id is the id of no tool call of an
\* assistant message standing earlier in the list
IsOrphanTool(msgs, i) ==
    /\ msgs[i].role = "tool"
    /\ ~\E j \in 1..(i - 1) :
           /\ msgs[j].role = "assistant"
           /\ IsSome(msgs[j].tool_calls)
           /\ \E k \in 1..Len(Val(msgs[j].tool_calls)) :
                  Some(Val(msgs[j].tool_calls)[k].id) = msgs[i].tool_call_id

HasOrphanTool(msgs) == \E i \in 1..Len(msgs) : IsOrphanTool(msgs, i)

\* the call has run up to its transport call or its failure
Called == pc /= "start"

\* C7: chat and chatStream on a list holding a tool-role message whose
\* tool_call_id matches no earlier assistant tool call fail with a tool error.
C7_OrphanToolFails ==
    (Called /\ HasOrphanTool(messages)) =>
        /\ pc = "failed"
        /\ IsSome(error)
        /\ Val(error).name = "LLMPlugToolError"

\* C8: chat and chatStream on a list with nothing to send, such as the empty
\* list, fail before the transport is invoked.
C8_NothingToSendFails ==
    (Called /\ messages = <<>>) =>
        /\ pc = "failed"
        /\ IsSome(error)
        /\ transportCalls = 0
        /\ ~IsSome(request)

RecognizedOptions ==
    {"temperature", "maxTokens", "stopSequences", "topP", "seed", "responseFormat",
     "toolChoice"}

\* the value the caller gave for each recognized option
GivenOptions(opts) ==
    [temperature |-> opts.temperature,
     maxTokens |-> opts.maxTokens,
     stopSequences |-> opts.stopSequences,
     topP |-> opts.extraParams.topP,
     seed |-> OrNum(opts.extraParams.randomSeed, opts.extraParams.seed),
     responseFormat |-> opts.responseFormat,
     toolChoice |-> opts.toolChoice]

NativeOptions(req) ==
    IF IsSome(req.options) THEN Val(req.options)
    ELSE [temperature |-> None, num_predict |-> None, top_p |-> None, stop |-> None,
          seed |-> None]

\* for each recognized option, the value the request holds in the vendor's
\* field for it, None when the request holds no such field
SentOptions(p, req) ==
    CASE p = "OpenAI" ->
            [temperature |-> req.temperature, maxTokens |-> req.max_tokens,
             stopSequences |-> req.stop, topP |-> None, seed |-> req.extra.seed,
             responseFormat |-> req.response_format, toolChoice |-> req.tool_choice]
      [] p \in {"OpenRouter", "Generic"} ->
            [temperature |-> req.temperature, maxTokens |-> req.max_tokens,
             stopSequences |-> req.stop, topP |-> req.top_p, seed |-> req.extra.seed,
             responseFormat |-> req.response_format, toolChoice |-> req.tool_choice]
      [] p = "Ollama" ->
            [temperature |-> req.temperature,
             maxTokens |-> IF IsSome(req.max_tokens) THEN req.max_tokens
                           ELSE NativeOptions(req).num_predict,
             stopSequences |-> req.stop, topP |-> req.top_p,
             seed |-> NativeOptions(req).seed,
             responseFormat |-> req.response_format, toolChoice |-> req.tool_choice]
      [] p = "Anthropic" ->
            [temperature |-> req.temperature, maxTokens |-> req.max_tokens,
             stopSequences |-> req.stop_sequences, topP |-> None, seed |-> None,
             responseFormat |-> None, toolChoice |-> None]
      [] p = "Google" ->
            [temperature |-> req.generationConfig.temperature,
             maxTokens |-> req.generationConfig.maxOutputTokens,
             stopSequences |-> req.generationConfig.stopSequences,
             topP |-> None, seed |-> None,
             responseFormat |->
                 IF req.generationConfig.responseMimeType = Some("application/json")
                 THEN Some([type |-> "json_object"]) ELSE None,
             toolChoice |-> None]
      [] p = "Cohere" ->
            [temperature |-> req.temperature, maxTokens |-> req.maxTokens,
             stopSequences |-> req.stopSequences, topP |-> req.p, seed |-> req.extra.seed,
             responseFormat |-> None, toolChoice |-> None]
      [] p = "Mistral" ->
            [temperature |-> req.temperature, maxTokens |-> req.maxTokens,
             stopSequences |-> None, topP |-> req.topP, seed |-> req.randomSeed,
             responseFormat |-> req.responseFormat,
             toolChoice |-> IF IsSome(req.toolChoice)
                            THEN Some(StringChoice(Val(req.toolChoice))) ELSE None]
      [] OTHER ->
            [temperature |-> req.parameters.temperature,
             maxTokens |-> req.parameters.max_new_tokens,
             stopSequences |-> req.parameters.stop_sequences,
             topP |-> None, seed |-> req.parameters.extra.seed,
             responseFormat |-> None, toolChoice |-> None]

\* C9: every recognized option the caller sets is in the request, under the
\* vendor's field, with the value the caller gave.
C9_SetOptionsCarried ==
    IsSome(request) =>
        \A o \in RecognizedOptions :
            IsSome(GivenOptions(options)[o]) =>
                SentOptions(provider, Val(request))[o] = GivenOptions(options)[o]

\* C10 as stated: for every recognized option the caller leaves unset the
\* request holds no field, neither a null nor a default.
C10_UnsetOptionsOmitted ==
    IsSome(request) =>
        \A o \in RecognizedOptions :
            ~IsSome(GivenOptions(options)[o]) =>
                SentOptions(provider, Val(request))[o] = None

\* what the request holds for option o when the caller leaves it unset
UnsetValue(p, o) ==
    CASE p = "Anthropic" /\ o = "maxTokens" -> Some(DefaultMaxTokens)
      [] p = "Mistral" /\ o = "toolChoice" -> Some(StringChoice("auto"))
      [] OTHER -> None

\* C10 amended: for every recognized option the caller leaves unset the
\* request holds no field, except that Anthropic sends max_tokens 1024 and
\* Mistral sends toolChoice "auto".
C10_UnsetOmittedButTwo ==
    IsSome(request) =>
        \A o \in RecognizedOptions :
            ~IsSome(GivenOptions(options)[o]) =>
                SentOptions(provider, Val(request))[o] = UnsetValue(provider, o)

\* a request went out with some options set and others left unset
C10_Witness ==
    /\ IsSome(request)
    /\ provider = "Anthropic"
    /\ IsSome(options.temperature)
    /\ ~IsSome(options.maxTokens)
    /\ ~IsSome(options.toolChoice)

----------------------------------------------------------------------------
(* What chat was answered with, read off the response received *)

\* chat has been answered by the transport and has returned or thrown
Answered == method = "chat" /\ Len(received) = 1 /\ pc \in {"done", "failed"}

\* the response holds no choice (OpenAI wire format) or no candidate (Google)
ZeroChoices ==
    /\ Answered
    /\ CASE provider \in OpenAIWire -> Len(received[1].choices) = 0
         [] provider = "Google" -> Len(received[1].candidates) = 0
         [] OTHER -> FALSE

\* C11: a chat whose vendor response has zero choices or candidates fails
\* with an error and returns no GenerationResult
C11_EmptyResponseFails == ZeroChoices => (~IsSome(result) /\ IsSome(error))

\* the finish-reason string of the response, as the vendor names it
VendorFinishReason ==
    CASE provider \in OpenAIWire ->
             IF Len(received[1].choices) > 0 THEN received[1].choices[1].finish_reason
             ELSE None
      [] provider = "Anthropic" -> received[1].stop_reason
      [] provider = "Google" ->
             IF Len(received[1].candidates) > 0 THEN received[1].candidates[1].finishReason
             ELSE None
      [] provider = "Cohere" -> received[1].finishReason
      [] OTHER -> None

\* chat has returned a GenerationResult
Returned == Answered /\ IsSome(result)

\* C12: the finishReason of a result is the vendor's finish-reason string in
\* lower case, and otherwise unchanged
C12_FinishReasonLowerCased ==
    Returned => Val(result).finishReason = LowerCased(VendorFinishReason)

\* the token counts the response reports, under the canonical names; a count
\* the response does not report is None
VendorUsage ==
    LET r == received[1]
    IN CASE provider \in OpenAIWire ->
                IF IsSome(r.usage)
                THEN Usage(Val(r.usage).prompt_tokens, Val(r.usage).completion_tokens,
                           Val(r.usage).total_tokens)
                ELSE Usage(None, None, None)
         [] provider = "Anthropic" ->
                IF IsSome(r.usage)
                THEN Usage(Val(r.usage).input_tokens, Val(r.usage).output_tokens, None)
                ELSE Usage(None, None, None)
         [] provider = "Google" ->
                LET count == IF Len(r.candidates) > 0 THEN r.candidates[1].tokenCount
                             ELSE None
                IN IF IsSome(r.usageMetadata)
                   THEN Usage(Val(r.usageMetadata).promptTokenCount,
                              IF IsSome(Val(r.usageMetadata).candidatesTokenCount)
                              THEN Val(r.usageMetadata).candidatesTokenCount ELSE count,
                              Val(r.usageMetadata).totalTokenCount)
                   ELSE Usage(None, count, None)
         [] provider = "Cohere" ->
                IF IsSome(r.tokens)
                THEN Usage(Some(Val(r.tokens).inputTokens), Some(Val(r.tokens).outputTokens),
                           None)
                ELSE Usage(None, None, None)
         [] OTHER -> Usage(None, None, None)

\* the usage of the result; a null usage has no field
ResultUsage ==
    IF IsSome(Val(result).usage) THEN Val(Val(result).usage) ELSE Usage(None, None, None)

\* C13: each usage field of a result is the count the vendor reported for it,
\* and undefined when the vendor reported none; no field is computed
C13_UsageAsReported == Returned => ResultUsage = VendorUsage

\* the response has content "4", finish reason "stop", a prompt count of 5,
\* a completion count of 1 and no tool calls
ScenarioResponse ==
    /\ Answered
    /\ messages = <<UserMsg>>
    /\ LET r == received[1]
       IN CASE provider \in OpenAIWire ->
                   /\ Len(r.choices) = 1
                   /\ IsSome(r.choices[1].message)
                   /\ Val(r.choices[1].message).content = Some("4")
                   /\ ~IsSome(Val(r.choices[1].message).tool_calls)
                   /\ r.choices[1].finish_reason = Some("stop")
                   /\ IsSome(r.usage)
                   /\ Val(r.usage).prompt_tokens = Some(5)
                   /\ Val(r.usage).completion_tokens = Some(1)
            [] provider = "Cohere" ->
                   /\ r.text = Some("4")
                   /\ ~IsSome(r.toolCalls)
                   /\ r.finishReason = Some("stop")
                   /\ IsSome(r.tokens)
                   /\ Val(r.tokens).inputTokens = 5
                   /\ Val(r.tokens).outputTokens = 1
            [] OTHER -> FALSE

\* C14: on the response of the scenario, chat returns text "4", toolCalls
\* undefined, usage {promptTokens 5, completionTokens 1, totalTokens 6} and
\* finishReason "stop"
C14_ScenarioResult ==
    ScenarioResponse =>
        /\ IsSome(result)
        /\ Val(result).text = Some("4")
        /\ Val(result).toolCalls = None
        /\ Val(result).usage = Some(Usage(Some(5), Some(1), Some(6)))
        /\ Val(result).finishReason = Some("stop")

\* the texts of the text blocks of a block-based response, in their order
TextBlockTexts ==
    LET r == received[1]
    IN CASE provider = "Anthropic" ->
                LET bs == SelectSeq(r.content, LAMBDA b : b.type = "text")
                IN [i \in 1..Len(bs) |-> bs[i].text]
         [] provider = "Google" ->
                LET ps == IF Len(r.candidates) > 0 /\ IsSome(r.candidates[1].parts)
                          THEN SelectSeq(Val(r.candidates[1].parts), LAMBDA q : IsSome(q.text))
                          ELSE <<>>
                IN [i \in 1..Len(ps) |-> Val(ps[i].text)]
         [] OTHER -> <<>>

\* t is s without the leading and the trailing whitespace of s
IsTrimOf(t, s) == t \in Cores /\ \E l \in Pads, r \in Pads : s = l \o t \o r

BlockBased == Returned /\ provider \in {"Anthropic", "Google"}

\* C15: for Anthropic and Google the result text is the concatenation of the
\* texts of the text blocks, in order, without its outer whitespace
C15_TextOfTextBlocks ==
    BlockBased =>
        /\ IsSome(Val(result).text)
        /\ IsTrimOf(Val(Val(result).text), ConcatAll(TextBlockTexts))

\* C15 as the code has it: the same text, and null when that text is empty
C15_TextOfTextBlocksOrNull ==
    BlockBased =>
        IF IsTrimOf("", ConcatAll(TextBlockTexts))
        THEN Val(result).text = None
        ELSE /\ IsSome(Val(result).text)
             /\ IsTrimOf(Val(Val(result).text), ConcatAll(TextBlockTexts))

\* two padded text blocks around a tool_use block were joined and trimmed
C15_Witness ==
    /\ BlockBased
    /\ provider = "Anthropic"
    /\ Len(received[1].content) = 3
    /\ TextBlockTexts = <<" Hel", "lo ">>
    /\ Val(result).text = Some("Hello")

StringArgs(a) == [kind |-> "string", str |-> a, obj |-> EmptyObject]
ObjectArgs(o) ==
    IF IsSome(o) THEN [kind |-> "object", str |-> "", obj |-> Val(o)]
    ELSE [kind |-> "none", str |-> "", obj |-> EmptyObject]

\* the arguments of the tool calls of the response, as the vendor gives them:
\* a string, a parsed object, or nothing
VendorToolArgs ==
    LET r == received[1]
    IN CASE provider \in OpenAIWire ->
                LET tcs == IF Len(r.choices) > 0 /\ IsSome(r.choices[1].message)
                              /\ IsSome(Val(r.choices[1].message).tool_calls)
                           THEN Val(Val(r.choices[1].message).tool_calls) ELSE <<>>
                IN [i \in 1..Len(tcs) |-> StringArgs(tcs[i].arguments)]
         [] provider = "Anthropic" ->
                LET bs == SelectSeq(r.content, LAMBDA b : b.type = "tool_use")
                IN [i \in 1..Len(bs) |-> ObjectArgs(bs[i].input)]
         [] provider = "Google" ->
                LET ps == IF Len(r.candidates) > 0 /\ IsSome(r.candidates[1].parts)
                          THEN SelectSeq(Val(r.candidates[1].parts),
                                         LAMBDA q : IsSome(q.functionCall))
                          ELSE <<>>
                IN [i \in 1..Len(ps) |-> ObjectArgs(Val(ps[i].functionCall).args)]
         [] provider = "Cohere" ->
                LET tcs == IF IsSome(r.toolCalls) THEN Val(r.toolCalls) ELSE <<>>
                IN [i \in 1..Len(tcs) |-> ObjectArgs(tcs[i].parameters)]
         [] OTHER -> <<>>

ResultToolCalls == IF IsSome(Val(result).toolCalls) THEN Val(Val(result).toolCalls) ELSE <<>>

\* str is a serialization of obj: it parses back to obj
Serializes(str, obj) == JsonParse(str).ok /\ JsonParse(str).value = obj

\* C16: every tool call of a result has string arguments: the vendor's string
\* unchanged, or the serialization of the vendor's parsed object
C16_ArgumentsAreStrings ==
    Returned =>
        /\ Len(ResultToolCalls) = Len(VendorToolArgs)
        /\ \A i \in 1..Len(ResultToolCalls) :
              LET a == ResultToolCalls[i].function.arguments
                  v == VendorToolArgs[i]
              IN CASE v.kind = "string" -> a = v.str
                   [] v.kind = "object" -> Serializes(a, v.obj)
                   [] OTHER -> JsonParse(a).ok

\* a parsed object was serialized into the arguments of a returned tool call
C16_Witness ==
    /\ Returned
    /\ provider = "Anthropic"
    /\ Len(ResultToolCalls) = 1
    /\ VendorToolArgs[1].kind = "object"
    /\ VendorToolArgs[1].obj = ObjectA1
    /\ ResultToolCalls[1].function.arguments = "{\"a\":1}"

----------------------------------------------------------------------------
(* Where the system text went, read off the request *)

SystemText == SystemMsg.content.text
UserTexts == {UserMsg.content.text}

HasSystemMessage == \E i \in 1..Len(messages) : messages[i].role = "system"

\* the request was built for a list with a system message, by a vendor adapter
\* that extracts it; the list has one system text
SystemExtracted ==
    /\ provider \in {"Anthropic", "Cohere", "Google"}
    /\ IsSome(request)
    /\ HasSystemMessage
    /\ \A i \in 1..Len(messages) : messages[i].role = "system" => messages[i] = SystemMsg

\* the texts of the ordinary vendor messages of the request, message by message
VendorMessageTexts ==
    LET req == Val(request)
    IN CASE provider = "Anthropic" ->
                [i \in 1..Len(req.messages) |->
                    LET bs == SelectSeq(req.messages[i].content, LAMBDA b : b.type = "text")
                    IN [j \in 1..Len(bs) |-> bs[j].text]]
         [] provider = "Google" ->
                [i \in 1..Len(req.contents) |->
                    LET ps == SelectSeq(req.contents[i].parts, LAMBDA q : "text" \in DOMAIN q)
                    IN [j \in 1..Len(ps) |-> ps[j].text]]
         [] provider = "Cohere" ->
                LET hs == SelectSeq(req.chatHistory, LAMBDA h : "message" \in DOMAIN h)
                IN [i \in 1..Len(hs) |-> <<hs[i].message>>] \o << <<req.message>> >>
         [] OTHER -> <<>>

\* the vendor's out-of-band field for the system instruction, None when the
\* vendor model has none
OutOfBandField ==
    LET req == Val(request)
    IN CASE provider = "Anthropic" -> req.system
         [] provider = "Cohere" -> req.preamble
         [] provider = "Google" -> req.systemInstruction
         [] OTHER -> None

\* Anthropic (system), Cohere (preamble) and the Gemini 1.5 models (systemInstruction)
SupportsOutOfBand ==
    provider \in {"Anthropic", "Cohere"} \/ config.defaultModel = Some("gemini-1.5-pro")

\* t is the system text prepended to a user text
IsPrepended(t) == \E u \in UserTexts : t = SystemText \o "\n\n" \o u

\* number of places of the request that carry the system text
SystemOccurrences ==
    LET all == FlattenSeq(VendorMessageTexts)
    IN (IF OutOfBandField = Some(SystemText) THEN 1 ELSE 0)
       + Len(SelectSeq(all, LAMBDA t : t = SystemText \/ IsPrepended(t)))

HasUserMessage == \E i \in 1..Len(messages) : messages[i].role = "user"

----------------------------------------------------------------------------
(* Tool results, read off the request *)

\* the name of the assistant tool call, standing before msgs[i], whose id is
\* the tool_call_id of the tool message msgs[i]
EarlierCallName(msgs, i) ==
    LET calls == SelectSeq(AllToolCalls(SubSeq(msgs, 1, i - 1)),
                           LAMBDA tc : Some(tc.id) = msgs[i].tool_call_id)
    IN calls[1].function.name

\* for every tool message of the list, in order, the name of its earlier call
ExpectedResultNames ==
    LET tools == SelectSeq([i \in 1..Len(messages) |-> i],
                           LAMBDA i : messages[i].role = "tool")
    IN [k \in 1..Len(tools) |-> Some(EarlierCallName(messages, tools[k]))]

\* the function names of the tool-result structures of the request, in order
VendorResultNames ==
    LET req == Val(request)
    IN CASE provider = "Google" ->
                LET ps == SelectSeq(FlattenSeq([i \in 1..Len(req.contents) |->
                                                   req.contents[i].parts]),
                                    LAMBDA q : "functionResponse" \in DOMAIN q)
                IN [j \in 1..Len(ps) |-> ps[j].functionResponse.name]
         [] provider = "Cohere" ->
                LET hs == SelectSeq(req.chatHistory, LAMBDA h : h.role = "TOOL")
                IN [j \in 1..Len(hs) |-> Some(hs[j].toolResults[1].call.name)]
         [] OTHER -> <<>>

\* a request was built by Google or Cohere for a list whose tool messages
\* all answer an earlier assistant tool call
ToolResultsTranslated ==
    /\ provider \in {"Google", "Cohere"}
    /\ IsSome(request)
    /\ \E i \in 1..Len(messages) : messages[i].role = "tool"
    /\ ~HasOrphanTool(messages)

\* C18: the function name of every vendor tool-result structure is that of the
\* earlier assistant tool call with the tool message's tool_call_id, also when
\* the tool message carries no name
C18_NameFromEarlierCall == ToolResultsTranslated => VendorResultNames = ExpectedResultNames

----------------------------------------------------------------------------
(* generate against chat on the wrapped input *)

\* what chat(messages, options) would hand to the transport for the input of
\* generate
AsChat == BuildRequest(provider, "chat", PrepareInputAsMessages(genInput), options, config)

Generated == method = "generate" /\ Called

\* r is the request on the wire
OnTheWire(r) ==
    /\ transportCalls = 1
    /\ DOMAIN Val(request) = DOMAIN r
    /\ Val(request) = r

\* C19: on every provider generate(input, options) sends the vendor request
\* chat sends for the wrapped input and the same options, and fails before the
\* transport call exactly where chat does
C19_GenerateIsChat ==
    Generated =>
        IF AsChat.ok THEN OnTheWire(AsChat.value)
        ELSE transportCalls = 0 /\ pc = "failed" /\ error = AsChat.error

----------------------------------------------------------------------------
(* One user message of plain text through the outbound adapters *)

\* the call was made on a list of exactly one user message of plain text
OneUserText ==
    /\ method \in {"chat", "chatStream"}
    /\ Called
    /\ Len(messages) = 1
    /\ messages[1].role = "user"
    /\ messages[1].content.kind = "string"
    /\ messages[1].tool_calls = None

\* the texts of a message content on the OpenAI wire
WireContentTexts(c) ==
    IF c.kind = "string" THEN <<c.text>>
    ELSE [j \in 1..Len(c.parts) |-> c.parts[j].text]

\* the providers whose request carries a list of role-tagged messages with
\* the content as a field
WireProviders == {"OpenRouter", "Generic", "Ollama", "Mistral"}

\* every text the request carries as message content or as system
\* instruction, in order
RequestTexts ==
    LET req == Val(request)
    IN CASE provider \in WireProviders ->
                FlattenSeq([i \in 1..Len(req.messages) |->
                               WireContentTexts(req.messages[i].content)])
         [] provider = "HuggingFace" ->
                req.inputs.past_user_inputs \o req.inputs.generated_responses
                \o <<req.inputs.text>>
         [] OTHER -> OutOfBandField \o FlattenSeq(VendorMessageTexts)

\* the number of content pieces of the request, whatever their type
RequestContentCount ==
    LET req == Val(request)
    IN CASE provider \in WireProviders -> Len(req.messages)
         [] provider = "HuggingFace" ->
                Len(req.inputs.past_user_inputs) + Len(req.inputs.generated_responses) + 1
         [] provider = "Anthropic" ->
                Len(FlattenSeq([i \in 1..Len(req.messages) |-> req.messages[i].content]))
         [] provider = "Google" ->
                Len(FlattenSeq([i \in 1..Len(req.contents) |-> req.contents[i].parts]))
         [] OTHER -> Len(req.chatHistory) + 1

\* the providers whose outbound adapter is part of the sources
AdapterInSource == RequestProviders \ {"OpenAI"}

\* the adapter built a request and handed it to the transport
RequestBuilt == transportCalls = 1 /\ IsSome(request)

\* the calls the round trip is about: one user message of plain text on a
\* provider that implements the method, with a model configured and no options
PlainCall ==
    /\ OneUserText
    /\ provider \in AdapterInSource
    /\ ~(provider = "HuggingFace" /\ method = "chatStream")

----------------------------------------------------------------------------
(* getProvider: the lookup and its failure *)

\* getProvider has looked the name up
LookedUp == setup /= Direct /\ pc /= "getProvider"

\* the registered name that is n in lower case, if any
RegisteredAs(n) == {i \in 1..Len(PROVIDERS) : PROVIDERS[i].key = LowerName(n)}

\* the message names every key of the registry
ListsRegisteredNames(what) ==
    \E n \in LookupNames :
        what = "Unsupported provider: " \o n \o ". Supported providers are: "
               \o "openai, anthropic, google, huggingface, cohere, mistralai, openrouter, "
               \o "ollama, llamacpp, oobabooga"

\* the name was not registered and getProvider threw an error that lists the
\* registered names, whatever its class
UnknownNameRefused ==
    /\ pc = "failed"
    /\ provider = NoProvider
    /\ IsSome(error)
    /\ ListsRegisteredNames(Val(error).what)

\* C21: getProvider finds a registered name whatever its case; for a name
\* that is not registered it fails with a configuration error whose message
\* lists every registered name, and constructs no provider
C21_UnknownNameIsConfigurationError ==
    LookedUp =>
        IF RegisteredAs(setup.providerName) /= {}
        THEN \A i \in RegisteredAs(setup.providerName) : provider = PROVIDERS[i].class
        ELSE UnknownNameRefused /\ Val(error).name = "LLMPlugConfigurationError"

----------------------------------------------------------------------------
(* Missing credential, missing model *)

\* getProvider found a provider class
ClassFound == setup /= Direct /\ provider \in RequestProviders

\* neither the config nor the environment holds a credential
MissingCredential == ~TruthyStr(setup.credential)

\* no model id per call, none in the config, none built into the provider
MissingModel ==
    /\ ~TruthyStr(options.model)
    /\ ~TruthyStr(setup.model)
    /\ provider \in {"OpenRouter", "Ollama", "Generic", "HuggingFace"}

\* the failure is a ConfigurationError and nothing reached the transport
RefusedAsConfiguration ==
    /\ pc = "failed"
    /\ IsSome(error)
    /\ Val(error).name = "LLMPlugConfigurationError"
    /\ transportCalls = 0
    /\ request = None

\* the constructor has returned or thrown
Constructed == pc \notin {"getProvider", "construct"}

\* C22: a provider whose credential is missing, whichever provider it is,
\* and a call for which no model id is available, fail with a
\* ConfigurationError and make no transport request
C22_MissingCredentialOrModelFails ==
    ClassFound =>
        /\ (MissingCredential /\ Constructed) => RefusedAsConfiguration
        /\ (MissingModel /\ Constructed /\ pc /= "start") => RefusedAsConfiguration

\* providers that work without a credential: the local servers get a
\* placeholder key, Hugging Face calls the public endpoint anonymously
KeyOptional == {"Ollama", "Generic", "HuggingFace"}

\* C22 (amended): a provider that requires a credential fails at
\* construction with a ConfigurationError when it is missing, and a call
\* for which no model id is available fails with a ConfigurationError; in
\* both cases no transport request is made
C22_RequiredCredentialOrModelFails ==
    ClassFound =>
        /\ (MissingCredential /\ provider \notin KeyOptional /\ Constructed)
               => RefusedAsConfiguration
        /\ (MissingModel /\ Constructed /\ pc /= "start") => RefusedAsConfiguration

\* a provider with a credential and no model anywhere was called and refused
C22_Witness ==
    /\ ClassFound
    /\ provider = "OpenRouter"
    /\ ~MissingCredential
    /\ MissingModel
    /\ setup.clientInit = "ok"
    /\ RefusedAsConfiguration

----------------------------------------------------------------------------
(* One attempt per call *)

\* the transport was invoked and failed, and the caller has the error
TransportFailed ==
    /\ pc = "failed"
    /\ transportCalls = 1
    /\ IsSome(error)
    /\ Val(error).originalError \in {Some(c) : c \in TransportErrors}

\* C23: every chat, generate, chatStream and generateStream call invokes the
\* transport at most once; a failed call has delivered exactly one error,
\* and after it the call invokes nothing, yields nothing and delivers no
\* other error
C23_OneAttemptOneError ==
    /\ [](transportCalls <= 1)
    /\ [](pc = "failed" <=> IsSome(error))
    /\ [][IsSome(error) => (error' = error /\ transportCalls' = transportCalls
                              /\ yielded' = yielded /\ result' = result)]_vars

\* the transport of a generateStream call failed after the call was made
C23_Witness == TransportFailed /\ method = "generateStream"

----------------------------------------------------------------------------
(* The cause of an error *)

\* the constructor reached the vendor SDK's client constructor, which threw
ClientInitFailed ==
    /\ ClassFound
    /\ Constructed
    /\ provider /= "HuggingFace"
    /\ provider \in NeedsKey => ~MissingCredential
    /\ setup.clientInit = "throws"

\* the transport was invoked and the call failed
FailedAfterTransport == pc = "failed" /\ transportCalls = 1

\* C24: an error raised because of an underlying failure carries that
\* failure as its originalError, whatever its class: the error of a failed
\* client initialization carries the error the vendor client threw, the
\* error of a failed transport call carries the error the transport threw
C24_CauseChained ==
    /\ ClientInitFailed =>
           /\ pc = "failed"
           /\ IsSome(error)
           /\ Val(error).originalError = Some(ClientInitError)
    /\ FailedAfterTransport =>
           /\ IsSome(error)
           /\ IsSome(Val(error).originalError)

----------------------------------------------------------------------------
\* Tool calls and tool results that cannot be resolved

\* a tool call of an assistant message whose arguments JSON.parse rejects
HasUnparseableCall(msgs) ==
    \E i \in 1..Len(msgs) :
        /\ msgs[i].role = "assistant"
        /\ IsSome(msgs[i].tool_calls)
        /\ \E k \in 1..Len(Val(msgs[i].tool_calls)) :
               ~JsonParse(Val(msgs[i].tool_calls)[k].function.arguments).ok

\* the list holds a tool result of an unknown id or a tool call whose arguments
\* do not parse
Unresolvable(msgs) == HasOrphanTool(msgs) \/ HasUnparseableCall(msgs)

\* the list also holds a tool call that parses, which is a sibling of the
\* unresolvable one
HasResolvableCall(msgs) ==
    \E i \in 1..Len(msgs) :
        /\ msgs[i].role = "assistant"
        /\ IsSome(msgs[i].tool_calls)
        /\ \E k \in 1..Len(Val(msgs[i].tool_calls)) :
               JsonParse(Val(msgs[i].tool_calls)[k].function.arguments).ok

\* C25: when a tool call or tool result of the conversation cannot be resolved
\* (unknown id, arguments that are not JSON), the failure is reported as a
\* tool error and the resolvable tool calls beside it are still translated into
\* the request.
C25_ToolErrorPerCall ==
    (/\ Called
     /\ IsSome(config.defaultModel)
     /\ Unresolvable(messages)
     /\ HasResolvableCall(messages)) =>
        /\ IsSome(error)
        /\ Val(error).name = "LLMPlugToolError"
        /\ IsSome(request)

----------------------------------------------------------------------------
\* Two interleaved streams

RECURSIVE RunAlone(_, _, _, _)
\* the locals and the chunks of a chatStream call on provider p that is the only
\* call on its instance, after the upstream events evs
RunAlone(p, evs, t, acc) ==
    IF evs = <<>> THEN acc
    ELSE LET r == StepOf(p, Head(evs), acc.toolState, acc.heap, t)
         IN RunAlone(p, Tail(evs), t,
                     [toolState |-> r.state, heap |-> r.heap,
                      yielded |-> IF IsSome(r.out) THEN Append(acc.yielded, Val(r.out))
                                  ELSE acc.yielded])

\* a call that received evs has yielded out, with tool-call objects h, as it
\* would have alone
AsAlone(evs, out, h) ==
    LET alone == RunAlone(provider, evs, now,
                          [toolState |-> <<>>, heap |-> <<>>, yielded |-> <<>>])
    IN out = alone.yielded /\ h = alone.heap

\* C26: two chatStream calls interleaved on one provider instance each yield
\* exactly the chunks they would yield alone on the same upstream events; no
\* call's accumulation enters the other's chunks.
C26_InterleavedAsAlone ==
    /\ AsAlone(received, yielded, heap)
    /\ AsAlone(second.received, second.yielded, second.heap)

\* both calls are in the middle of a tool call of their own, with different
\* accumulated state, and both have yielded
C26_Witness ==
    /\ pc = "pull" /\ second.pc = "pull"
    /\ toolState /= <<>> /\ second.toolState /= <<>>
    /\ toolState /= second.toolState
    /\ Len(received) = MaxInterleaved /\ Len(second.received) = MaxInterleaved
    /\ yielded /= <<>> /\ second.yielded /= <<>>

----------------------------------------------------------------------------
\* Abandoned streams

\* the consumer has called return() on the stream
Abandoned == pc \in {"returning", "returned"}

\* the upstream iterator is open: created and neither exhausted, failed nor closed
UpstreamOpen == pc \in {"pull", "consume", "returning"}

\* C27: once the consumer has abandoned a chatStream, the upstream sequence is
\* closed, no further upstream event is fetched or processed and no further
\* chunk is produced.
C27_AbandonedStreamStops ==
    /\ [](Abandoned => ~UpstreamOpen)
    /\ [][Abandoned => (received' = received /\ yielded' = yielded /\ toolState' = toolState)]_vars

\* the same for a consumer that abandons the stream from its loop body, while
\* the generator is suspended at a yield
C27_AbandonedAtYieldStops ==
    /\ [](pc = "returned" => ~UpstreamOpen)
    /\ [][pc = "returned" =>
            (received' = received /\ yielded' = yielded /\ toolState' = toolState)]_vars

----------------------------------------------------------------------------
\* After the terminal chunk

\* positions of the yielded chunks that carry a finish reason
FinishChunks == {i \in 1..Len(yielded) : TruthyStr(yielded[i].finishReason)}

\* a chunk carrying a finish reason has been yielded
Finished == FinishChunks /= {}

\* the chunk carries text or tool calls
CarriesDeltas(chunk) == TruthyStr(chunk.text) \/ IsSome(chunk.toolCalls)

\* C28: once a chunk carrying the terminal finish reason has been yielded, no
\* later event is accumulated into the tool-call state and no later chunk
\* carries text or tool calls.
C28_NothingAfterFinish ==
    /\ [](\A i \in FinishChunks :
            \A j \in (i + 1)..Len(yielded) : ~CarriesDeltas(yielded[j]))
    /\ [][Finished => toolState' = toolState]_vars

----------------------------------------------------------------------------
\* Snapshots in chunks already yielded

\* what the tool-call snapshots yielded so far show when read with heap h:
\* id, name and arguments of each
SnapshotsRead(h) ==
    [k \in 1..Len(YieldedSnapshots) |->
        [id |-> YieldedSnapshots[k].id,
         name |-> FunctionOf(YieldedSnapshots[k], h).name,
         arguments |-> FunctionOf(YieldedSnapshots[k], h).arguments]]

\* C29: the tool-call snapshots of the chunks already yielded keep their name
\* and arguments whatever later events are processed.
C29_YieldedSnapshotsKeep == [][SnapshotsRead(heap') = SnapshotsRead(heap)]_vars

----------------------------------------------------------------------------
\* Accumulation by index

IndexKeyed == {"OpenRouter", "Ollama", "Generic"}

\* the indexes the tool-call deltas received so far were sent under
IndexesReceived == {UpstreamDeltas[k].index : k \in 1..Len(UpstreamDeltas)}

\* the arguments fragments received for index idx, concatenated in arrival order
FragmentsFor(idx) ==
    ConcatAll([k \in 1..Len(UpstreamDeltas) |->
        IF UpstreamDeltas[k].index = idx THEN OrStr(UpstreamDeltas[k].arguments, "")
        ELSE ""])

\* the arguments the accumulator holds for index idx, "" when it holds no entry
AccumulatedFor(idx) ==
    IF MapHas(toolState, idx) THEN heap[MapGet(toolState, idx).ref].arguments ELSE ""

\* C30: in the index-keyed accumulators, before a finish reason, the arguments
\* accumulated for an index are the concatenation in arrival order of every
\* fragment received for that index, whether or not a later delta repeats the
\* id and whether or not the first delta carried one.
C30_IndexAccumulatesAll ==
    (provider \in IndexKeyed /\ NoTerminal) =>
        \A idx \in IndexesReceived : AccumulatedFor(idx) = FragmentsFor(idx)

\* the same for streams in which the first delta of an index, and no other,
\* carries the id
IdOnFirstDeltaOnly ==
    \A k \in 1..Len(UpstreamDeltas) :
        TruthyStr(UpstreamDeltas[k].id) <=>
            (\A j \in 1..(k - 1) : UpstreamDeltas[j].index /= UpstreamDeltas[k].index)

C30_IndexAccumulatesWellFormed ==
    (provider \in IndexKeyed /\ NoTerminal /\ IdOnFirstDeltaOnly) =>
        \A idx \in IndexesReceived : AccumulatedFor(idx) = FragmentsFor(idx)

----------------------------------------------------------------------------
\* Anthropic: tool input streamed as input_json_delta

\* the partial_json of an event whose delta is an input_json_delta, in either
\* event type
InputJsonOf(ev) ==
    IF IsSome(ev.delta) /\ Val(ev.delta).type = Some("input_json_delta")
    THEN <<Val(ev.delta).partial_json>> ELSE <<>>

\* the partial_json fragments received so far, concatenated in arrival order
InputJsonReceived ==
    ConcatAll(FlattenSeq([i \in 1..Len(received) |-> InputJsonOf(received[i])]))

\* the chunk just yielded is the chunk of message_stop, and tool input arrived
\* as input_json_delta before it
AtMessageStop ==
    /\ provider = "Anthropic"
    /\ pc = "consume"
    /\ Len(received) >= 2
    /\ received[Len(received)].type = "message_stop"
    /\ \E i \in 1..(Len(received) - 1) : InputJsonOf(received[i]) /= <<>>

\* C31: in Anthropic chatStream, when the input of a tool_use block arrives as
\* input_json_delta events, the chunk yielded at message_stop carries that tool
\* call with the partial_json fragments concatenated in arrival order as its
\* arguments.
C31_MessageStopCarriesInput ==
    AtMessageStop =>
        LET chunk == yielded[Len(yielded)]
        IN /\ IsSome(chunk.toolCalls)
           /\ \E k \in 1..Len(Val(chunk.toolCalls)) :
                  /\ Val(chunk.toolCalls)[k].id = Some("toolu_0")
                  /\ FunctionOf(Val(chunk.toolCalls)[k], heap).arguments = InputJsonReceived

\* the same when every fragment arrives in the event shape the accumulator
\* reads: type content_block_start with a delta and the content_block
C31_MessageStopCarriesStartShaped ==
    (AtMessageStop /\ UpstreamFragments = FlattenSeq([i \in 1..Len(received) |->
                                                          InputJsonOf(received[i])])) =>
        C31_MessageStopCarriesInput

----------------------------------------------------------------------------
\* Cohere: the tool calls of the stream-end chunk

\* the tool calls announced by the tool-calls-generation events received so far
AnnouncedCalls ==
    FlattenSeq([i \in 1..Len(received) |->
        IF received[i].eventType = "tool-calls-generation" /\ IsSome(received[i].toolCalls)
        THEN Val(received[i].toolCalls) ELSE <<>>])

\* the chunk just yielded is the stream-end chunk of a Cohere stream that
\* announced at least one tool call
AtStreamEnd ==
    /\ provider = "Cohere"
    /\ AtTerminalChunk
    /\ Len(AnnouncedCalls) >= 1

\* the tool calls of the chunk yielded last
LastToolCalls ==
    IF IsSome(yielded[Len(yielded)].toolCalls) THEN Val(yielded[Len(yielded)].toolCalls)
    ELSE <<>>

\* C32: in Cohere chatStream the stream-end chunk carries one tool call per
\* announced call, each with arguments that parse as JSON.
C32_StreamEndCarriesEveryCall ==
    AtStreamEnd =>
        /\ Len(LastToolCalls) = Len(AnnouncedCalls)
        /\ \A k \in 1..Len(LastToolCalls) :
               JsonParse(FunctionOf(LastToolCalls[k], heap).arguments).ok

\* with one call announced, before any fragment, and a response object on
\* stream-end, the chunk carries one tool call whose arguments are the
\* fragments received
C32_OneCallCarried ==
    (/\ AtStreamEnd
     /\ Len(AnnouncedCalls) = 1
     /\ received[1].eventType = "tool-calls-generation"
     /\ IsSome(received[Len(received)].response)) =>
        /\ Len(LastToolCalls) = 1
        /\ FunctionOf(LastToolCalls[1], heap).arguments = ConcatAll(UpstreamFragments)

----------------------------------------------------------------------------
\* Field names of the usage of a chunk

CanonicalUsageFields == {"promptTokens", "completionTokens", "totalTokens"}

\* C33: the usage object of every yielded chunk has only the canonical field
\* names promptTokens, completionTokens and totalTokens.
C33_UsageFieldsCanonical ==
    \A i \in 1..Len(yielded) :
        IsSome(yielded[i].usage) => DOMAIN Val(yielded[i].usage) \subseteq CanonicalUsageFields

----------------------------------------------------------------------------
\* Usage reported by an upstream event of the OpenAI-compatible streams

\* the prompt, completion and total counts of a usage object under either naming
CountsOf(u) ==
    IF "prompt_tokens" \in DOMAIN u
    THEN <<u.prompt_tokens, u.completion_tokens, u.total_tokens>>
    ELSE <<u.promptTokens, u.completionTokens, u.totalTokens>>

\* a chunk was yielded for upstream event ev and carries the usage ev reports
UsageYieldedFor(ev) ==
    \E i \in 1..Len(yielded) :
        /\ yielded[i].rawChunk = ev
        /\ IsSome(yielded[i].usage)
        /\ CountsOf(Val(yielded[i].usage)) = CountsOf(Val(ev.usage))

\* C34: in the streams of OpenRouter, Ollama and the generic provider, every
\* upstream event that reports usage yields a chunk carrying that usage, also
\* when its choices list is empty or it has no finish reason.
C34_UsageNeverDropped ==
    provider \in IndexKeyed =>
        \A k \in 1..Len(received) : IsSome(received[k].usage) => UsageYieldedFor(received[k])

\* the same for events that have a choice
C34_UsageWithChoiceKept ==
    provider \in IndexKeyed =>
        \A k \in 1..Len(received) :
            (IsSome(received[k].usage) /\ received[k].choices /= <<>>) =>
                UsageYieldedFor(received[k])

----------------------------------------------------------------------------
\* The caller's list across two calls

\* both calls have handed a request to the transport
BothCalled == IsSome(request) /\ second.pc = "called"

\* C35: building a request leaves the caller's message list unchanged, and two
\* calls with the same list send the same request.
C35_ListUnchanged ==
    /\ [][messages' = messages]_vars
    /\ [](BothCalled => second.request = request)

\* the same for every provider but Google with a model older than gemini-1.5
C35_ListUnchangedElsewhere ==
    /\ [][(provider /= "Google" \/ IsGemini15(config)) => messages' = messages]_vars
    /\ []((BothCalled /\ (provider /= "Google" \/ IsGemini15(config))) =>
             second.request = request)

----------------------------------------------------------------------------
\* Roles of the Gemini history

\* no two adjacent entries of history h have the same role
RolesAlternate(h) == \A i \in 1..(Len(h) - 1) : h[i].role /= h[i + 1].role

\* C36: the Gemini history GoogleProvider sends never holds two adjacent
\* entries of the same role.
C36_GeminiRolesAlternate ==
    (provider = "Google" /\ IsSome(request)) => RolesAlternate(Val(request).contents)

\* the same for lists without an assistant message that has neither content
\* nor tool calls
C36_GeminiRolesAlternateMerged ==
    (/\ provider = "Google"
     /\ IsSome(request)
     /\ \A i \in 1..Len(messages) : messages[i] /= EmptyAssistantMsg) =>
        RolesAlternate(Val(request).contents)

----------------------------------------------------------------------------
\* Several system messages

SystemExtractors == {"Anthropic", "Google", "Cohere", "HuggingFace"}

\* the texts of the system messages of the list, in order
SystemTexts(msgs) ==
    LET sys == SelectSeq(msgs, LAMBDA m : m.role = "system" /\ m.content.kind = "string")
    IN [i \in 1..Len(sys) |-> sys[i].content.text]

\* the texts of the user messages of the list
UserTextsOf(msgs) ==
    {msgs[i].content.text : i \in {j \in 1..Len(msgs) : msgs[j].role = "user"
                                                        /\ msgs[j].content.kind = "string"}}

\* the text of the place of the request where the provider puts the system text
SystemCarrier(p, req) ==
    CASE p = "Anthropic" -> OrStr(req.system, "")
      [] p = "Cohere" -> OrStr(req.preamble, "")
      [] p = "Google" ->
            IF IsSome(req.systemInstruction) THEN Val(req.systemInstruction)
            ELSE IF Len(req.contents) > 0 /\ Len(req.contents[1].parts) > 0
                    /\ "text" \in DOMAIN req.contents[1].parts[1]
            THEN req.contents[1].parts[1].text
            ELSE ""
      [] OTHER -> req.inputs.text

\* the texts joined in order by a line break or a blank line, alone or followed
\* by a user text (an empty one when the list has none)
CarryingAll(texts, users) ==
    {JoinLines(texts, sep) \o rest :
        sep \in {"\n", "\n\n"},
        rest \in {""} \cup {gap \o u : gap \in {"\n", "\n\n"}, u \in users \cup {""}}}

\* a request was built from a list with several system messages
SeveralSystems ==
    /\ provider \in SystemExtractors
    /\ IsSome(request)
    /\ Len(SystemTexts(messages)) >= 2

\* C37: when the list holds several system messages, the text of each of them
\* is in the request of Anthropic, Google, Cohere and Hugging Face.
C37_EverySystemTextSent ==
    SeveralSystems =>
        SystemCarrier(provider, Val(request))
            \in CarryingAll(SystemTexts(messages), UserTextsOf(messages))

\* Hugging Face concatenates the system texts, so both are in inputs.text
C37_HuggingFaceSendsEvery ==
    provider = "HuggingFace" => C37_EverySystemTextSent

----------------------------------------------------------------------------
\* Hugging Face: the two history lists

\* chat of the Hugging Face provider built its payload
HFPayloadBuilt ==
    /\ provider = "HuggingFace"
    /\ method = "chat"
    /\ IsSome(request)

\* C39: the lists past_user_inputs and generated_responses that
\* HuggingFaceProvider.chat sends have the same length, whatever sequence of
\* user, assistant and system messages was folded; the lists of the earlier
\* HuggingFaceProvider.chat have the same length too.
C39_HistoryListsPair ==
    /\ HFPayloadBuilt =>
          Len(Val(request).inputs.past_user_inputs)
              = Len(Val(request).inputs.generated_responses)
    /\ (provider = "HuggingFace" /\ method = "chat" /\ pc /= "start") =>
          Len(HFEarlierInputs(messages).pastUserInputs)
              = Len(HFEarlierInputs(messages).generatedResponses)

\* a payload with two pairs, the first of them an assistant message that no
\* user message precedes, paired with a placeholder
C39_Witness ==
    /\ HFPayloadBuilt
    /\ Len(Val(request).inputs.generated_responses) = 2
    /\ Val(request).inputs.past_user_inputs[1] = ""
    /\ Val(request).inputs.generated_responses[1] /= ""

----------------------------------------------------------------------------
\* chat and chatStream build one request

\* the other of the two methods
OtherMethod(m) == IF m = "chat" THEN "chatStream" ELSE "chat"

\* a request without its stream flag
WithoutStream(r) == IF "stream" \in DOMAIN r THEN [r EXCEPT !.stream = None] ELSE r

\* the request the call made in this step built, when it built one, is the one
\* the other method builds from the same messages and options, stream flag apart
SameAsOtherMethod ==
    (pc = "start" /\ pc' /= "start") =>
        LET o == BuildRequest(provider, OtherMethod(method), messages, options, config)
        IN IsSome(request') =>
              /\ o.ok
              /\ WithoutStream(o.value) = WithoutStream(Val(request'))

\* C38: for the same messages and options, chat and chatStream of a provider
\* build the same vendor request apart from the stream flag.
C38_ChatAndStreamBuildSame ==
    [][(provider \in Providers) => SameAsOtherMethod]_vars

\* the same for every provider but Ollama
C38_ChatAndStreamBuildSameElsewhere ==
    [][(provider \in Providers \ {"Ollama"}) => SameAsOtherMethod]_vars

============================================================================
